---- MODULE Spec2Model ----
(***************************************************************************)
(* Model of tools/enforce_docstrings.py, the documentation-contract        *)
(* enforcer of diffusion-core.                                             *)
(*                                                                         *)
(* A run of main() is a state machine: pkg_dir, scope selection, one       *)
(* iteration of the target loop per step, and the final report.  Source    *)
(* files are modelled by their syntax tree (a sequence of top-level        *)
(* statements) and their text lines; text is a sequence of characters.     *)
(***************************************************************************)
EXTENDS Integers, Sequences, FiniteSets, TLC

VARIABLES
    pc,          \* position in main(): "start", "scope", "loop", "report", "done", "fatal"
    fs,          \* the working tree: path -> file
    argv,        \* the parsed command line: [pkg, scope]
    gitOut,      \* what `git diff --name-only` answers: a list of paths, or GitFails
    pkgDir,      \* pkg, once pkg_dir() returned
    targets,     \* main's `targets`
    ti,          \* index of the next target of the loop `for t in targets`
    violations,  \* main's `violations`
    trace,       \* the calls made so far: check functions, parse_py, lookups
    stdout,      \* what was printed: "ok", or the violation lines of the report
    stderr,      \* the diagnostic of a fatal error, or NoDiag
    status,      \* the exit status, or -1 while running
    def_line,    \* has_escape_with_reason: the line under scan
    scanned,     \* has_escape_with_reason: whether the scan ran
    suppressed,  \* has_escape_with_reason: its result
    gpc,         \* precommit_guard.main: position ("revparse", "fetch", "showref",
                 \* "mergebase", "done", or "idle")
    genv,        \* precommit_guard: the git repository and its remote
    gcalls,      \* precommit_guard: the git commands run so far
    grc,         \* precommit_guard: main's return value, or -1
    gmsg,        \* precommit_guard: what was printed
    disk,        \* run layout and config: the file system, path -> directory or file
    heap,        \* config_utils: the config objects alive, by identity
    lcall,       \* run layout and config: the last call made and how it ended
    ncalls,      \* run layout and config: the number of calls made
    tree,        \* blocks_artifacts: the working tree, path -> size in bytes
    bcall,       \* blocks_artifacts: the last call made and how it ended
    pfiles,      \* provenance: the content of each file provenance.json refers to
    pjson,       \* provenance: meta/provenance.json
    pwritten,    \* provenance: the referenced files as write_provenance_bundle left them
    pcall        \* provenance: the last step made, how it ended, and the steps so far

runVars == <<pc, fs, argv, gitOut, pkgDir, targets, ti, violations, trace,
             stdout, stderr, status>>
escVars == <<def_line, scanned, suppressed>>
guardVars == <<gpc, genv, gcalls, grc, gmsg>>
\* the state of the other tools
layoutVars == <<disk, heap, lcall, ncalls>>
blockVars == <<tree, bcall>>
provVars == <<pfiles, pjson, pwritten, pcall>>
extVars == <<guardVars, layoutVars, blockVars, provVars>>
vars == <<pc, fs, argv, gitOut, pkgDir, targets, ti, violations, trace,
          stdout, stderr, status, def_line, scanned, suppressed, extVars>>

(***************************************************************************)
(* Bounds of the model.                                                    *)
(***************************************************************************)
MaxSegs == 3      \* segments of a definition line under scan
MaxChanged == 2   \* paths in the answer of git diff
MaxExports == 2   \* names in the entry file's __all__
MaxCalls == 2     \* calls of create_run_dir, run_once, load_config, with_run_root
MaxPaths == 2     \* paths in a list handed to the artifact blocker
MaxSteps == 4     \* provenance: writes, validations and file changes in a row

(***************************************************************************)
(* Text: a string is a sequence of one-character strings.                  *)
(***************************************************************************)
Tok1 == <<"n","o","q","a",":"," ","D","O","C">>
Tok2 == <<"d","o","c","s","t","r","i","n","g","-","c","o","n","t","r","a","c","t",
          ":"," ","i","g","n","o","r","e">>
ESCAPE_TOKENS == <<Tok1, Tok2>>

Whitespace == {" ", "\t"}

UpperCase == [c \in {"A","C","D","N","O","P","Q","T"} |->
                CASE c = "A" -> "a" [] c = "C" -> "c" [] c = "D" -> "d"
                  [] c = "N" -> "n" [] c = "O" -> "o" [] c = "P" -> "p"
                  [] c = "Q" -> "q" [] c = "T" -> "t"]

\* str.lower(), character by character
lower(s) == [k \in 1..Len(s) |-> IF s[k] \in DOMAIN UpperCase THEN UpperCase[s[k]] ELSE s[k]]

\* str.find(sub): the 0-based index of the first occurrence, or -1
find(s, sub) ==
    LET hits == {k \in 0..(Len(s) - Len(sub)) : SubSeq(s, k + 1, k + Len(sub)) = sub}
    IN IF hits = {} THEN -1 ELSE CHOOSE k \in hits : \A h \in hits : k <= h

\* s[k:] for k >= 0
SliceFrom(s, k) == SubSeq(s, k + 1, Len(s))

\* str.strip()
strip(s) ==
    LET ink == {k \in 1..Len(s) : s[k] \notin Whitespace}
    IN IF ink = {} THEN <<>>
       ELSE SubSeq(s, CHOOSE a \in ink : \A b \in ink : a <= b,
                      CHOOSE a \in ink : \A b \in ink : a >= b)

RECURSIVE EscapeScan(_, _)
EscapeScan(line, k) ==
    IF k > Len(ESCAPE_TOKENS) THEN FALSE
    ELSE LET tok == ESCAPE_TOKENS[k]
             idx == find(lower(line), lower(tok))
         IN IF idx = -1 THEN EscapeScan(line, k + 1)
            ELSE Len(strip(SliceFrom(line, idx + Len(tok)))) > 0

has_escape_with_reason(line) == EscapeScan(line, 1)

(***************************************************************************)
(* Definition lines are assembled from segments.                           *)
(***************************************************************************)
Segs == {"def", "hash", "tok1", "TOK1", "tok2", "noqa_", "sp", "why"}

SegText(g) ==
    CASE g = "def"   -> <<"d","e","f"," ","f","(",")",":">>
      [] g = "hash"  -> <<" ","#"," ">>
      [] g = "tok1"  -> Tok1
      [] g = "TOK1"  -> <<"N","o","Q","A",":"," ","d","o","c">>
      [] g = "tok2"  -> Tok2
      [] g = "noqa_" -> <<"n","o","q","a",":"," ">>
      [] g = "sp"    -> <<" ","\t">>
      [] g = "why"   -> <<"w","h","y">>
      [] g = "docesc" -> <<"d","o","c","-","e","s","c","a","p","e",":">>
      [] g = "doc"   -> <<" ","\"","D","o","c",".","\"">>
      [] g = "stmt"  -> <<"p","a","s","s">>

RECURSIVE Text(_)
Text(segs) == IF segs = <<>> THEN <<>> ELSE SegText(Head(segs)) \o Text(Tail(segs))

SeqsUpTo(S, n) == UNION {[1..k -> S] : k \in 0..n}

(***************************************************************************)
(* Paths, relative to ROOT: the directory, the file's stem, its suffix.    *)
(***************************************************************************)
P(dir, stem, suffix) == [dir |-> dir, stem |-> stem, suffix |-> suffix]

IsPrefix(a, b) == Len(a) <= Len(b) /\ SubSeq(b, 1, Len(a)) = a

\* The ancestors of a path's file: Path.parents
InParents(d, path) == IsPrefix(d, path.dir)

\* Mutant of startswith_underscore: tests for "__", not "_"
startswith_dunder(name) == Len(name) >= 2 /\ name[1] = "_" /\ name[2] = "_"

\* names are character sequences: str.startswith("_")
startswith_underscore(name) == Len(name) >= 1 /\ name[1] = "_"

is_public_name(name) == ~startswith_underscore(name)

(***************************************************************************)
(* Files and syntax trees.  A file is [exists, syntaxOK, body, lines]:     *)
(* body is what ast.parse gives (the top-level statements, in source       *)
(* order), lines what read_text().splitlines() gives (each line a list of  *)
(* segments, see Text).                                                    *)
(***************************************************************************)
NoFile == [exists |-> FALSE, syntaxOK |-> TRUE, body |-> <<>>, lines |-> <<>>]

NoDiag == [kind |-> "none", path |-> P(<<>>, "", "")]
Diag(kind, path) == [kind |-> kind, path |-> path]

DefTypes == {"FunctionDef", "AsyncFunctionDef", "ClassDef"}

\* str.split("\n")
RECURSIVE split_lines(_)
split_lines(s) ==
    LET nl == {k \in 1..Len(s) : s[k] = "\n"}
        k == CHOOSE a \in nl : \A b \in nl : a <= b
    IN IF nl = {} THEN <<s>>
       ELSE <<SubSeq(s, 1, k - 1)>> \o split_lines(SubSeq(s, k + 1, Len(s)))

\* str.expandtabs() of one line: a tab goes to the next multiple of 8 columns
RECURSIVE expandtabs(_, _)
expandtabs(line, col) ==
    IF line = <<>> THEN <<>>
    ELSE IF Head(line) = "\t"
    THEN [k \in 1..(8 - (col % 8)) |-> " "] \o expandtabs(Tail(line), col + 8 - (col % 8))
    ELSE <<Head(line)>> \o expandtabs(Tail(line), col + 1)

\* str.lstrip()
lstrip(line) ==
    LET ink == {k \in 1..Len(line) : line[k] \notin Whitespace}
    IN IF ink = {} THEN <<>>
       ELSE SubSeq(line, CHOOSE a \in ink : \A b \in ink : a <= b, Len(line))

\* "\n".join(lines)
RECURSIVE join_lines(_)
join_lines(lines) ==
    IF lines = <<>> THEN <<>>
    ELSE IF Len(lines) = 1 THEN lines[1]
    ELSE lines[1] \o <<"\n">> \o join_lines(Tail(lines))

\* inspect.cleandoc: the first line loses its leading whitespace, the later
\* lines the margin common to those of them that have content, and empty lines
\* at either end are dropped
cleandoc(s) ==
    LET raw == split_lines(s)
        lines == [k \in 1..Len(raw) |-> expandtabs(raw[k], 0)]
        later == {k \in 2..Len(lines) : lstrip(lines[k]) # <<>>}
        indents == {Len(lines[k]) - Len(lstrip(lines[k])) : k \in later}
        margin == CHOOSE m \in indents : \A n \in indents : m <= n
        trimmed == [k \in 1..Len(lines) |->
                       IF k = 1 THEN lstrip(lines[1])
                       ELSE IF later # {} THEN SubSeq(lines[k], margin + 1, Len(lines[k]))
                       ELSE lines[k]]
        full == {k \in 1..Len(trimmed) : trimmed[k] # <<>>}
    IN IF full = {} THEN <<>>
       ELSE join_lines(SubSeq(trimmed, CHOOSE a \in full : \A b \in full : a <= b,
                                       CHOOSE a \in full : \A b \in full : a >= b))

\* ast.get_docstring(node): [some, text]; some = FALSE is None
get_docstring(node) ==
    IF node.body # <<>> /\ node.body[1].type = "Expr"
       /\ node.body[1].value.type = "Constant" /\ node.body[1].value.isStr
    THEN [some |-> TRUE, text |-> cleandoc(node.body[1].value.value)]
    ELSE [some |-> FALSE, text |-> <<>>]

\* Mutant of Truthy: any docstring counts, an empty one too
TruthyAnyLiteral(doc) == doc.some

\* Python's truth of `doc`: None and "" are false
Truthy(doc) == doc.some /\ doc.text # <<>>

\* Mutant of parse_py: a syntax error is swallowed and the file read as empty
parse_py_lenient(files, path) ==
    IF ~files[path].exists
    THEN [ok |-> FALSE, tree |-> [type |-> "Module", body |-> <<>>],
          diag |-> Diag("FileNotFoundError", path)]
    ELSE [ok |-> TRUE, tree |-> [type |-> "Module", body |-> files[path].body],
          diag |-> NoDiag]

\* parse_py(path): [ok, tree, diag]
parse_py(files, path) ==
    LET f == files[path]
    IN IF ~f.exists
       THEN [ok |-> FALSE, tree |-> [type |-> "Module", body |-> <<>>],
             diag |-> Diag("FileNotFoundError", path)]
       ELSE IF ~f.syntaxOK
       THEN [ok |-> FALSE, tree |-> [type |-> "Module", body |-> <<>>],
             diag |-> Diag("SyntaxError", path)]
       ELSE [ok |-> TRUE, tree |-> [type |-> "Module", body |-> f.body],
             diag |-> NoDiag]

module_docstring_ok(mod) == Truthy(get_docstring(mod))

get_lines(files, path) == [k \in 1..Len(files[path].lines) |-> Text(files[path].lines[k])]

\* Mutant of top_level_defs: plain functions only
top_level_defs_functions_only(mod) ==
    SelectSeq(mod.body, LAMBDA node : node.type = "FunctionDef")

top_level_defs(mod) == SelectSeq(mod.body, LAMBDA node : node.type \in DefTypes)

\* Mutant of DefLine: the line read is the file's first line
DefLineOfHeader(lines, node) ==
    IF 1 <= Len(lines) THEN lines[1] ELSE <<>>

\* The definition line of a node, as check_api_file and check_init_exports read it
DefLine(lines, node) ==
    IF 1 <= node.lineno /\ node.lineno <= Len(lines) THEN lines[node.lineno] ELSE <<>>

\* extract_all_list(mod): [found, fatal, items]; found = FALSE is None
RECURSIVE ItemsOf(_)
ItemsOf(elts) ==
    IF elts = <<>> THEN [fatal |-> FALSE, items |-> <<>>]
    ELSE IF ~(Head(elts).type = "Constant" /\ Head(elts).isStr)
    THEN [fatal |-> TRUE, items |-> <<>>]
    ELSE LET rest == ItemsOf(Tail(elts))
         IN [fatal |-> rest.fatal,
             items |-> IF rest.fatal THEN <<>> ELSE <<Head(elts).value>> \o rest.items]

RECURSIVE ExtractFrom(_, _)
ExtractFrom(body, k) ==
    IF k > Len(body) THEN [found |-> FALSE, fatal |-> FALSE, items |-> <<>>]
    ELSE IF body[k].type = "Assign"
            /\ \E j \in 1..Len(body[k].targets) : body[k].targets[j] = "__all__"
    THEN IF body[k].value.type \in {"List", "Tuple"}
         THEN LET r == ItemsOf(body[k].value.elts)
              IN [found |-> TRUE, fatal |-> r.fatal, items |-> r.items]
         ELSE [found |-> TRUE, fatal |-> TRUE, items |-> <<>>]
    ELSE ExtractFrom(body, k + 1)

\* Mutant of extract_all_list: answers [] instead of None when __all__ is not defined
extract_all_list_or_empty(mod) == [ExtractFrom(mod.body, 1) EXCEPT !.found = TRUE]

extract_all_list(mod) == ExtractFrom(mod.body, 1)

\* import_map_from_init(mod): a list of [exported, base, original], one entry per
\* key of the dict; a later binding of a key replaces the earlier one
\* Mutant of AliasBinding: the original name is taken to be the local name
AliasBindingLocal(node, alias) ==
    [exported |-> IF alias.asname # <<>> THEN alias.asname ELSE alias.name,
     base |-> node.module,
     original |-> IF alias.asname # <<>> THEN alias.asname ELSE alias.name]

\* lines 225-227: the entry of one alias of a relative from-import
AliasBinding(node, alias) ==
    [exported |-> IF alias.asname # <<>> THEN alias.asname ELSE alias.name,
     base |-> node.module,
     original |-> alias.name]

\* Mutant of Bind: a name that is already bound keeps its first binding
BindFirstWins(mapping, e) ==
    IF \E k \in 1..Len(mapping) : mapping[k].exported = e.exported
    THEN mapping
    ELSE Append(mapping, e)

\* mapping[exported] = (base, original) of a dict that keeps insertion order
Bind(mapping, e) ==
    IF \E k \in 1..Len(mapping) : mapping[k].exported = e.exported
    THEN [k \in 1..Len(mapping) |->
            IF mapping[k].exported = e.exported THEN e ELSE mapping[k]]
    ELSE Append(mapping, e)

RECURSIVE BindAliases(_, _, _)
BindAliases(mapping, node, j) ==
    IF j > Len(node.names) THEN mapping
    ELSE BindAliases(Bind(mapping, AliasBinding(node, node.names[j])), node, j + 1)

RECURSIVE ImportMapFrom(_, _, _)
ImportMapFrom(body, k, mapping) ==
    IF k > Len(body) THEN mapping
    ELSE IF body[k].type = "ImportFrom" /\ body[k].level >= 1
    THEN ImportMapFrom(body, k + 1, BindAliases(mapping, body[k], 1))
    ELSE ImportMapFrom(body, k + 1, mapping)

import_map_from_init(mod) == ImportMapFrom(mod.body, 1, <<>>)

InMap(mapping, name) == \E k \in 1..Len(mapping) : mapping[k].exported = name
Lookup(mapping, name) ==
    mapping[CHOOSE k \in 1..Len(mapping) : mapping[k].exported = name]

\* Mutant of resolve_module_file: only <pkg>/<dotted>/__init__.py is tried
resolve_module_file_package_only(files, pkg, dotted) ==
    IF P(pkg \o dotted, "__init__", ".py") \in DOMAIN files
       /\ files[P(pkg \o dotted, "__init__", ".py")].exists
    THEN [found |-> TRUE, path |-> P(pkg \o dotted, "__init__", ".py")]
    ELSE [found |-> FALSE, path |-> P(pkg \o dotted, "__init__", ".py")]

\* resolve_module_file(pkg, dotted): [found, path].  dotted is the list of the
\* dotted name's components; str(Path()) is ".", so an empty dotted name tries
\* <pkg>/..py and then <pkg>/__init__.py
resolve_module_file(files, pkg, dotted) ==
    LET cand1 == IF dotted = <<>> THEN P(pkg, ".", ".py")
                 ELSE P(pkg \o SubSeq(dotted, 1, Len(dotted) - 1),
                        dotted[Len(dotted)], ".py")
        cand2 == P(pkg \o dotted, "__init__", ".py")
    IN IF cand1 \in DOMAIN files /\ files[cand1].exists
       THEN [found |-> TRUE, path |-> cand1]
       ELSE IF cand2 \in DOMAIN files /\ files[cand2].exists
       THEN [found |-> TRUE, path |-> cand2]
       ELSE [found |-> FALSE, path |-> cand2]

\* find_top_level_symbol(mod, name): [found, node]
\* Mutant of find_top_level_symbol: the last matching definition is returned
find_top_level_symbol_last(mod, name) ==
    LET defs == top_level_defs(mod)
        hits == {k \in 1..Len(defs) : defs[k].name = name}
    IN IF hits = {} THEN [found |-> FALSE, node |-> [type |-> "None"]]
       ELSE [found |-> TRUE,
             node |-> defs[CHOOSE k \in hits : \A h \in hits : k >= h]]

find_top_level_symbol(mod, name) ==
    LET defs == top_level_defs(mod)
        hits == {k \in 1..Len(defs) : defs[k].name = name}
    IN IF hits = {} THEN [found |-> FALSE, node |-> [type |-> "None"]]
       ELSE [found |-> TRUE,
             node |-> defs[CHOOSE k \in hits : \A h \in hits : k <= h]]

(***************************************************************************)
(* Checks.  A check answers [ok, v, diag, trace]: ok = FALSE is a          *)
(* SystemExit or an uncaught exception raised inside it (diag says which); *)
(* v is the list of violations it returns; trace the calls it made.        *)
(***************************************************************************)
V(path, lineno, kind, name, arg) ==
    [path |-> path, lineno |-> lineno, kind |-> kind, name |-> name, arg |-> arg]

Ev(op, path, name) == [op |-> op, path |-> path, name |-> name]

Returned(v, tr) == [ok |-> TRUE, v |-> v, diag |-> NoDiag, trace |-> tr]
Raised(diag, tr) == [ok |-> FALSE, v |-> <<>>, diag |-> diag, trace |-> tr]

\* Mutant of ApiDefViolation: the definition line is never scanned for an escape
ApiDefViolationNoEscape(path, lines, node) ==
    IF ~is_public_name(node.name) THEN <<>>
    ELSE IF Truthy(get_docstring(node)) THEN <<>>
    ELSE <<V(path, node.lineno, "Public symbol is missing a docstring", node.name, <<>>)>>

\* One iteration of check_api_file's loop over top_level_defs: the violations of node
ApiDefViolation(path, lines, node) ==
    IF ~is_public_name(node.name) THEN <<>>
    ELSE IF Truthy(get_docstring(node)) THEN <<>>
    ELSE IF has_escape_with_reason(DefLine(lines, node)) THEN <<>>
    ELSE <<V(path, node.lineno, "Public symbol is missing a docstring", node.name, <<>>)>>

RECURSIVE ApiDefsFrom(_, _, _, _)
ApiDefsFrom(path, lines, defs, k) ==
    IF k > Len(defs) THEN <<>>
    ELSE ApiDefViolation(path, lines, defs[k]) \o ApiDefsFrom(path, lines, defs, k + 1)

check_api_file(files, path) ==
    LET p == parse_py(files, path)
        tr == <<Ev("check_api_file", path, <<>>), Ev("parse_py", path, <<>>)>>
    IN IF ~p.ok THEN Raised(p.diag, tr)
       ELSE LET v0 == IF ~module_docstring_ok(p.tree)
                      THEN <<V(path, 1, "Missing module docstring (public API file)",
                               <<>>, <<>>)>>
                      ELSE <<>>
            IN Returned(v0 \o ApiDefsFrom(path, get_lines(files, path),
                                          top_level_defs(p.tree), 1),
                        tr)

\* Mutant of check_core_module: the definitions are checked as in an API file
check_core_module_with_defs(files, path) ==
    LET p == parse_py(files, path)
        tr == <<Ev("check_core_module", path, <<>>), Ev("parse_py", path, <<>>)>>
    IN IF ~p.ok THEN Raised(p.diag, tr)
       ELSE Returned((IF ~module_docstring_ok(p.tree)
                      THEN <<V(path, 1, "Missing module header docstring (core module)",
                               <<>>, <<>>)>>
                      ELSE <<>>)
                     \o ApiDefsFrom(path, get_lines(files, path), top_level_defs(p.tree), 1),
                     tr)

check_core_module(files, path) ==
    LET p == parse_py(files, path)
        tr == <<Ev("check_core_module", path, <<>>), Ev("parse_py", path, <<>>)>>
    IN IF ~p.ok THEN Raised(p.diag, tr)
       ELSE Returned(IF ~module_docstring_ok(p.tree)
                     THEN <<V(path, 1, "Missing module header docstring (core module)",
                              <<>>, <<>>)>>
                     ELSE <<>>,
                     tr)

\* Mutant of OriginCheck: an export whose original name the origin file does not
\* define is passed over without a violation
OriginCheckSilent(files, mod_file, mod_tree, name, original, tr) ==
    LET sym == find_top_level_symbol(mod_tree, original)
        tr1 == Append(tr, Ev("find_top_level_symbol", mod_file, name))
    IN IF ~sym.found THEN Returned(<<>>, tr1)
       ELSE IF Truthy(get_docstring(sym.node)) THEN Returned(<<>>, tr1)
       ELSE IF has_escape_with_reason(DefLine(get_lines(files, mod_file), sym.node))
       THEN Returned(<<>>, tr1)
       ELSE Returned(<<V(mod_file, sym.node.lineno,
                         "Exported public symbol is missing a docstring", name, <<>>)>>,
                     tr1)

\* The origin definition's part of one iteration of check_init_exports' loop,
\* once the origin file is parsed: lines 346-368
OriginCheck(files, mod_file, mod_tree, name, original, tr) ==
    LET sym == find_top_level_symbol(mod_tree, original)
        tr1 == Append(tr, Ev("find_top_level_symbol", mod_file, name))
    IN IF ~sym.found
       THEN Returned(<<V(mod_file, 1, "maps to a symbol not found", name, original)>>, tr1)
       ELSE IF Truthy(get_docstring(sym.node)) THEN Returned(<<>>, tr1)
       ELSE IF has_escape_with_reason(DefLine(get_lines(files, mod_file), sym.node))
       THEN Returned(<<>>, tr1)
       ELSE Returned(<<V(mod_file, sym.node.lineno,
                         "Exported public symbol is missing a docstring", name, <<>>)>>,
                     tr1)

\* Mutant of ExportStep: the package form <pkg>/<dotted>/__init__.py is preferred
\* to the file form <pkg>/<dotted>.py
ExportStepPackageFirst(files, init_path, pkg, imports, name) ==
    IF startswith_underscore(name)
    THEN Returned(<<V(init_path, 1, "__all__ contains private name", name, <<>>)>>, <<>>)
    ELSE IF ~InMap(imports, name)
    THEN Returned(<<V(init_path, 1, "not imported via a simple from-import", name, <<>>)>>,
                  <<Ev("import_lookup", init_path, name)>>)
    ELSE LET b == Lookup(imports, name)
             r == IF resolve_module_file_package_only(files, pkg, b.base).found
                  THEN resolve_module_file_package_only(files, pkg, b.base)
                  ELSE resolve_module_file(files, pkg, b.base)
             tr == <<Ev("import_lookup", init_path, name),
                     Ev("resolve_module_file", r.path, name)>>
         IN IF ~r.found
            THEN Returned(<<V(init_path, 1, "Cannot resolve module", name, b.base)>>, tr)
            ELSE LET p == parse_py(files, r.path)
                     tr1 == Append(tr, Ev("parse_py", r.path, name))
                 IN IF ~p.ok THEN Raised(p.diag, tr1)
                    ELSE OriginCheck(files, r.path, p.tree, name, b.original, tr1)

\* One iteration of check_init_exports' loop `for name in exported`
ExportStep(files, init_path, pkg, imports, name) ==
    IF startswith_underscore(name)
    THEN Returned(<<V(init_path, 1, "__all__ contains private name", name, <<>>)>>, <<>>)
    ELSE IF ~InMap(imports, name)
    THEN Returned(<<V(init_path, 1, "not imported via a simple from-import", name, <<>>)>>,
                  <<Ev("import_lookup", init_path, name)>>)
    ELSE LET b == Lookup(imports, name)
             r == resolve_module_file(files, pkg, b.base)
             tr == <<Ev("import_lookup", init_path, name),
                     Ev("resolve_module_file", r.path, name)>>
         IN IF ~r.found
            THEN Returned(<<V(init_path, 1, "Cannot resolve module", name, b.base)>>, tr)
            ELSE LET p == parse_py(files, r.path)
                     tr1 == Append(tr, Ev("parse_py", r.path, name))
                 IN IF ~p.ok THEN Raised(p.diag, tr1)
                    ELSE OriginCheck(files, r.path, p.tree, name, b.original, tr1)

RECURSIVE ExportLoop(_, _, _, _, _, _, _, _)
ExportLoop(files, init_path, pkg, imports, exported, k, v, tr) ==
    IF k > Len(exported) THEN Returned(v, tr)
    ELSE LET r == ExportStep(files, init_path, pkg, imports, exported[k])
         IN IF ~r.ok THEN Raised(r.diag, tr \o r.trace)
            ELSE ExportLoop(files, init_path, pkg, imports, exported, k + 1,
                            v \o r.v, tr \o r.trace)

check_init_exports(files, init_path, pkg) ==
    LET p == parse_py(files, init_path)
        tr == <<Ev("check_init_exports", init_path, <<>>), Ev("parse_py", init_path, <<>>)>>
    IN IF ~p.ok THEN Raised(p.diag, tr)
       ELSE LET v0 == IF ~module_docstring_ok(p.tree)
                      THEN <<V(init_path, 1, "Missing module docstring in package __init__.py",
                               <<>>, <<>>)>>
                      ELSE <<>>
                exported == extract_all_list(p.tree)
            IN IF exported.fatal THEN Raised(Diag("__all__ must be a literal", init_path), tr)
               ELSE IF ~exported.found
               THEN Returned(Append(v0, V(init_path, 1, "__all__ is missing", <<>>, <<>>)), tr)
               ELSE ExportLoop(files, init_path, pkg, import_map_from_init(p.tree),
                               exported.items, 1, v0, tr)

(***************************************************************************)
(* Configuration of main(): the package directory, CORE_MODULES, the       *)
(* tiers.                                                                  *)
(***************************************************************************)
Exists(files, path) == path \in DOMAIN files /\ files[path].exists

\* Path.exists() of a directory: some file lies under it
DirExists(files, dir) == \E q \in DOMAIN files : files[q].exists /\ IsPrefix(dir, q.dir)

CORE_MODULES ==
    { P(<<"src", "diffusion_core", "config">>, "load", ".py"),
      P(<<"src", "diffusion_core", "runs">>, "layout", ".py"),
      P(<<"src", "diffusion_core">>, "executor", ".py"),
      P(<<"src", "diffusion_core">>, "logging", ".py"),
      P(<<"src", "diffusion_core", "eval">>, "metrics", ".py"),
      P(<<"src", "diffusion_core", "eval", "metrics">>, "__init__", ".py"),
      P(<<"src", "diffusion_core">>, "checkpointing", ".py"),
      P(<<"src", "diffusion_core">>, "determinism", ".py") }

\* substitute_pkg: "src/diffusion_core/" becomes "src/<pkg_name>/"
substitute_pkg(paths, pkg_name) ==
    { IF IsPrefix(<<"src", "diffusion_core">>, q.dir)
      THEN P(<<"src", pkg_name>> \o SubSeq(q.dir, 3, Len(q.dir)), q.stem, q.suffix)
      ELSE q : q \in paths }

\* detect_pkg_dir(): [ok, dir, diag]
detect_pkg_dir(files) ==
    LET candidates == { q.dir : q \in { r \in DOMAIN files :
                            /\ files[r].exists
                            /\ Len(r.dir) = 2 /\ r.dir[1] = "src"
                            /\ r.stem = "__init__" /\ r.suffix = ".py" } }
    IN IF ~DirExists(files, <<"src">>)
       THEN [ok |-> FALSE, dir |-> <<>>, diag |-> Diag("Expected a src/ directory", P(<<>>, "", ""))]
       ELSE IF Cardinality(candidates) = 1
       THEN [ok |-> TRUE, dir |-> CHOOSE d \in candidates : TRUE, diag |-> NoDiag]
       ELSE IF Cardinality(candidates) = 0
       THEN [ok |-> FALSE, dir |-> <<>>,
             diag |-> Diag("Could not auto-detect package dir", P(<<>>, "", ""))]
       ELSE [ok |-> FALSE, dir |-> <<>>,
             diag |-> Diag("Multiple packages under src/", P(<<>>, "", ""))]

\* pkg_dir(pkg_name): [ok, dir, diag]; pkg_name = "" is None
pkg_dir(files, pkg_name) ==
    IF pkg_name # ""
    THEN IF Exists(files, P(<<"src", pkg_name>>, "__init__", ".py"))
         THEN [ok |-> TRUE, dir |-> <<"src", pkg_name>>, diag |-> NoDiag]
         ELSE [ok |-> FALSE, dir |-> <<>>,
               diag |-> Diag("--pkg given but __init__.py not found",
                             P(<<"src", pkg_name>>, "__init__", ".py"))]
    ELSE detect_pkg_dir(files)

core_paths(pkg) == substitute_pkg(CORE_MODULES, pkg[2])
api_dir(pkg) == pkg \o <<"api">>
init_path(pkg) == P(pkg, "__init__", ".py")

\* Mutant of TierOf: only the files directly in the API directory are API files
TierOfDirectChild(files, pkg, t) ==
    IF t = P(pkg, "__init__", ".py") THEN "entry"
    ELSE IF t.dir = pkg \o <<"api">> THEN "api"
    ELSE IF t \in substitute_pkg(CORE_MODULES, pkg[2]) THEN "core"
    ELSE "none"

\* The tier main's loop body checks t under: lines 425-435
TierOf(files, pkg, t) ==
    IF t = init_path(pkg) THEN "entry"
    ELSE IF DirExists(files, api_dir(pkg)) /\ InParents(api_dir(pkg), t) THEN "api"
    ELSE IF t \in core_paths(pkg) THEN "core"
    ELSE "none"

\* The call main's loop body makes for t
CheckOf(files, pkg, t) ==
    LET tier == TierOf(files, pkg, t)
    IN IF tier = "entry" THEN check_init_exports(files, init_path(pkg), pkg)
       ELSE IF tier = "api" THEN check_api_file(files, t)
       ELSE IF tier = "core" THEN check_core_module(files, t)
       ELSE Returned(<<>>, <<>>)

(***************************************************************************)
(* The order of paths: Python compares paths part by part and parts as     *)
(* strings.  PathOrder lists the paths of the model in that order.         *)
(***************************************************************************)
PathOrder ==
    << P(<<"src", "diffusion_core">>, "__init__", ".py"),
       P(<<"src", "diffusion_core", "api">>, "metrics", ".py"),
       P(<<"src", "diffusion_core", "api">>, "schema", ".json"),
       P(<<"src", "diffusion_core", "api", "sub">>, "zeta", ".py"),
       P(<<"src", "diffusion_core", "bar">>, "__init__", ".py"),
       P(<<"src", "diffusion_core">>, "bar", ".py"),
       P(<<"src", "diffusion_core">>, "executor", ".py"),
       P(<<"src", "other_pkg">>, "__init__", ".py"),
       P(<<"tools">>, "guard", ".py") >>

Rank(path) == CHOOSE k \in 1..Len(PathOrder) : PathOrder[k] = path

\* sorted(S) for a set of paths
SortedPaths(S) ==
    [k \in 1..Cardinality(S) |->
        CHOOSE q \in S : Cardinality({r \in S : Rank(r) < Rank(q)}) = k - 1]

\* Mutant of AllTargets: the core modules are left out
AllTargetsNoCore(files, pkg) ==
    SortedPaths({ q \in DOMAIN files : /\ files[q].exists
                                       /\ InParents(pkg \o <<"api">>, q)
                                       /\ q.suffix = ".py" }
                \cup {P(pkg, "__init__", ".py")})

\* The targets of --all: lines 398-408
AllTargets(files, pkg) ==
    LET api == IF DirExists(files, api_dir(pkg))
               THEN { q \in DOMAIN files : /\ files[q].exists
                                            /\ InParents(api_dir(pkg), q)
                                            /\ q.suffix = ".py" }
               ELSE {}
        core == { q \in core_paths(pkg) : Exists(files, q) }
    IN SortedPaths(api \cup {init_path(pkg)} \cup core)

\* The targets of --staged and --range: line 414
ChangedTargets(changed) == SelectSeq(changed, LAMBDA q : q.suffix = ".py")

(***************************************************************************)
(* main()                                                                  *)
(***************************************************************************)
NoStdout == [banner |-> "none", lines |-> <<>>]

Abort(diag) ==
    /\ pc' = "fatal"
    /\ stderr' = diag
    /\ status' = 1

\* line 389: pkg = pkg_dir(args.pkg)
PkgDirStep ==
    /\ pc = "start"
    /\ LET r == pkg_dir(fs, argv.pkg)
       IN IF r.ok
          THEN /\ pc' = "scope"
               /\ pkgDir' = r.dir
               /\ UNCHANGED <<stderr, status>>
          ELSE /\ Abort(r.diag)
               /\ UNCHANGED pkgDir
    /\ UNCHANGED <<fs, argv, gitOut, targets, ti, violations, trace, stdout>>
    /\ UNCHANGED escVars
    /\ UNCHANGED extVars

\* lines 397-416: the targets of the scope
SelectScope ==
    /\ pc = "scope"
    /\ IF argv.scope = "all"
       THEN /\ targets' = AllTargets(fs, pkgDir)
            /\ pc' = "loop"
            /\ UNCHANGED <<stderr, status>>
       ELSE IF gitOut.ok
       THEN /\ targets' = ChangedTargets(gitOut.files)
            /\ pc' = "loop"
            /\ UNCHANGED <<stderr, status>>
       ELSE /\ Abort(Diag("CalledProcessError", P(<<>>, "", "")))
            /\ UNCHANGED targets
    /\ UNCHANGED <<fs, argv, gitOut, pkgDir, ti, violations, trace, stdout>>
    /\ UNCHANGED escVars
    /\ UNCHANGED extVars

\* Mutant of CheckTarget: the loop over the targets ends at the first file that
\* yields a violation
CheckTargetStopsAtViolation ==
    /\ pc = "loop"
    /\ ti <= Len(targets)
    /\ LET r == CheckOf(fs, pkgDir, targets[ti])
       IN /\ trace' = trace \o r.trace
          /\ IF r.ok
             THEN /\ violations' = violations \o r.v
                  /\ ti' = IF r.v # <<>> THEN Len(targets) + 1 ELSE ti + 1
                  /\ UNCHANGED <<pc, stderr, status>>
             ELSE /\ Abort(r.diag)
                  /\ UNCHANGED <<violations, ti>>
    /\ UNCHANGED <<fs, argv, gitOut, pkgDir, targets, stdout>>
    /\ UNCHANGED escVars
    /\ UNCHANGED extVars

\* lines 419-435: one iteration of `for t in targets`
CheckTarget ==
    /\ pc = "loop"
    /\ ti <= Len(targets)
    /\ LET r == CheckOf(fs, pkgDir, targets[ti])
       IN /\ trace' = trace \o r.trace
          /\ IF r.ok
             THEN /\ violations' = violations \o r.v
                  /\ ti' = ti + 1
                  /\ UNCHANGED <<pc, stderr, status>>
             ELSE /\ Abort(r.diag)
                  /\ UNCHANGED <<violations, ti>>
    /\ UNCHANGED <<fs, argv, gitOut, pkgDir, targets, stdout>>
    /\ UNCHANGED escVars
    /\ UNCHANGED extVars

\* Mutant of Report: the violations are printed, the status is 0 all the same
ReportStatusZero ==
    /\ pc = "loop"
    /\ ti > Len(targets)
    /\ pc' = "done"
    /\ stdout' = IF violations # <<>>
                 THEN [banner |-> "Docstring enforcement violations:", lines |-> violations]
                 ELSE [banner |-> "Docstring contract: OK", lines |-> <<>>]
    /\ status' = 0
    /\ UNCHANGED <<fs, argv, gitOut, pkgDir, targets, ti, violations, trace, stderr>>
    /\ UNCHANGED <<def_line, scanned, suppressed>>
    /\ UNCHANGED extVars

\* lines 437-450: the report and the exit status
Report ==
    /\ pc = "loop"
    /\ ti > Len(targets)
    /\ pc' = "done"
    /\ IF violations # <<>>
       THEN /\ stdout' = [banner |-> "Docstring enforcement violations:", lines |-> violations]
            /\ status' = 1
       ELSE /\ stdout' = [banner |-> "Docstring contract: OK", lines |-> <<>>]
            /\ status' = 0
    /\ UNCHANGED <<fs, argv, gitOut, pkgDir, targets, ti, violations, trace, stderr>>
    /\ UNCHANGED escVars
    /\ UNCHANGED extVars

Next == PkgDirStep \/ SelectScope \/ CheckTarget \/ Report

(***************************************************************************)
(* has_escape_with_reason on its own                                       *)
(***************************************************************************)
ScanLine ==
    /\ ~scanned
    /\ scanned' = TRUE
    /\ suppressed' = has_escape_with_reason(Text(def_line))
    /\ UNCHANGED def_line
    /\ UNCHANGED runVars
    /\ UNCHANGED extVars

NextEscape == ScanLine

(***************************************************************************)
(* tools/precommit_guard.py.  The repository is a small commit graph, the  *)
(* branch HEAD stands on, the remote `origin` and the remote-tracking ref  *)
(* refs/remotes/origin/main; each call of sh() is one step of main().      *)
(***************************************************************************)
\* commit 1 is the root; 2 follows 1, 3 follows 2, and 4 follows 1 on another line
Commits == {1, 2, 3, 4}
CommitParent == [c \in Commits |-> CASE c = 1 -> 0 [] c = 2 -> 1 [] c = 3 -> 2 [] c = 4 -> 1]

RECURSIVE IsAncestor(_, _)
IsAncestor(a, b) ==
    IF b = 0 THEN FALSE
    ELSE IF a = b THEN TRUE
    ELSE IsAncestor(a, CommitParent[b])

BranchNames == {"HEAD", "main", "master", "chore/feat"}

\* Mutant of ProtectedBranches: master is not protected
ProtectedBranchesMainOnly == {"main"}

\* line 38: the branches commits are refused on
ProtectedBranches == {"main", "master"}

\* sh("git", "rev-parse", "--abbrev-ref", "HEAD"): [rc, out]
git_rev_parse_abbrev_ref(env) ==
    IF env.repo THEN [rc |-> 0, out |-> env.head] ELSE [rc |-> 128, out |-> "fatal"]

\* sh("git", "fetch", "origin", "main", "--quiet"): [rc, env]; a fetch that
\* succeeds moves the remote-tracking ref when the remote's refspec names it
git_fetch_origin_main(env) ==
    IF env.remote.reachable /\ env.remote.main # 0
    THEN [rc |-> 0, env |-> IF env.remote.tracked THEN [env EXCEPT !.ref = env.remote.main]
                            ELSE env]
    ELSE [rc |-> 128, env |-> env]

\* sh("git", "show-ref", "--verify", "--quiet", "refs/remotes/origin/main")
git_show_ref_origin_main(env) == IF env.ref # 0 THEN 0 ELSE 1

\* sh("git", "merge-base", "--is-ancestor", "origin/main", "HEAD")
git_merge_base_is_ancestor(env) ==
    IF env.ref = 0 THEN 128
    ELSE IF IsAncestor(env.ref, env.headCommit) THEN 0 ELSE 1

GuardReturn(rc, msg) ==
    /\ gpc' = "done"
    /\ grc' = rc
    /\ gmsg' = msg

\* lines 28-43: the branch HEAD stands on
GuardRevParse ==
    /\ gpc = "revparse"
    /\ gcalls' = Append(gcalls, "rev-parse")
    /\ LET r == git_rev_parse_abbrev_ref(genv)
       IN IF r.rc # 0 THEN GuardReturn(1, "not a git repo")
          ELSE IF r.out = "HEAD" THEN GuardReturn(1, "detached HEAD")
          ELSE IF r.out \in ProtectedBranches THEN GuardReturn(1, "refusing commit")
          ELSE /\ gpc' = "fetch"
               /\ UNCHANGED <<grc, gmsg>>
    /\ UNCHANGED genv
    /\ UNCHANGED <<runVars, escVars, layoutVars, blockVars, provVars>>

\* lines 47-51: git fetch origin main
GuardFetch ==
    /\ gpc = "fetch"
    /\ gcalls' = Append(gcalls, "fetch")
    /\ LET r == git_fetch_origin_main(genv)
       IN /\ genv' = r.env
          /\ IF r.rc # 0 THEN GuardReturn(1, "failed to fetch origin/main")
             ELSE /\ gpc' = "showref"
                  /\ UNCHANGED <<grc, gmsg>>
    /\ UNCHANGED <<runVars, escVars, layoutVars, blockVars, provVars>>

\* lines 53-56: refs/remotes/origin/main exists
GuardShowRef ==
    /\ gpc = "showref"
    /\ gcalls' = Append(gcalls, "show-ref")
    /\ IF git_show_ref_origin_main(genv) # 0
       THEN GuardReturn(1, "origin/main not found after fetch")
       ELSE /\ gpc' = "mergebase"
            /\ UNCHANGED <<grc, gmsg>>
    /\ UNCHANGED genv
    /\ UNCHANGED <<runVars, escVars, layoutVars, blockVars, provVars>>

\* lines 58-65: origin/main is an ancestor of HEAD
GuardMergeBase ==
    /\ gpc = "mergebase"
    /\ gcalls' = Append(gcalls, "merge-base")
    /\ IF git_merge_base_is_ancestor(genv) # 0
       THEN GuardReturn(1, "not based on latest origin/main")
       ELSE GuardReturn(0, "")
    /\ UNCHANGED genv
    /\ UNCHANGED <<runVars, escVars, layoutVars, blockVars, provVars>>

NextGuard == GuardRevParse \/ GuardFetch \/ GuardShowRef \/ GuardMergeBase

GitEnvs ==
    [repo : BOOLEAN, head : BranchNames, headCommit : Commits,
     remote : [reachable : BOOLEAN, main : {0} \cup Commits, tracked : BOOLEAN],
     ref : {0} \cup Commits]

InitNoGuard ==
    /\ gpc = "idle"
    /\ genv = [repo |-> FALSE, head |-> "HEAD", headCommit |-> 1,
               remote |-> [reachable |-> FALSE, main |-> 0, tracked |-> FALSE], ref |-> 0]
    /\ gcalls = <<>>
    /\ grc = -1
    /\ gmsg = ""

(***************************************************************************)
(* diffusion_core/config/run_layout.py.  A path is the list of its parts,  *)
(* each a string of characters; the file system maps the paths there are   *)
(* to a directory or to a file and its content.                            *)
(***************************************************************************)
S_meta == <<"m","e","t","a">>
S_logs == <<"l","o","g","s">>
S_ckpts == <<"c","k","p","t","s">>
S_artifacts == <<"a","r","t","i","f","a","c","t","s">>
S_last == <<"l","a","s","t">>
S_metrics_jsonl == <<"m","e","t","r","i","c","s",".","j","s","o","n","l">>
S_config_resolved_yaml == <<"c","o","n","f","i","g",".","r","e","s","o","l","v","e","d",".","y","a","m","l">>
S_run == <<"r","u","n">>
S_runs == <<"r","u","n","s">>
S_out == <<"o","u","t">>
S_smoke == <<"s","m","o","k","e">>

ADir == [kind |-> "dir", content |-> <<>>]
AFile(content) == [kind |-> "file", content |-> content]

\* str.isalnum(), over the characters of the model
Alnum == {"a", "b", "c", "e", "k", "l", "m", "n", "o", "r", "s", "t", "u", "y",
          "0", "1", "2", "3", "4", "5", "6", "7", "8", "9"}

\* s.strip("-")
strip_dashes(s) ==
    LET ink == {k \in 1..Len(s) : s[k] # "-"}
    IN IF ink = {} THEN <<>>
       ELSE SubSeq(s, CHOOSE a \in ink : \A b \in ink : a <= b,
                      CHOOSE a \in ink : \A b \in ink : a >= b)

\* line 42: the experiment name made safe for a directory name
safe_name(experiment_name) ==
    strip_dashes([k \in 1..Len(experiment_name) |->
                    IF experiment_name[k] \in Alnum \cup {"-", "_"}
                    THEN experiment_name[k] ELSE "-"])

\* line 43: rid = f"{run_id}_{safe or 'run'}"
run_dir_name(experiment_name, run_id) ==
    run_id \o <<"_">> \o (IF safe_name(experiment_name) = <<>> THEN S_run
                          ELSE safe_name(experiment_name))

\* the paths above path, the nearest last
ProperPrefixes(path) == {SubSeq(path, 1, k) : k \in 1..(Len(path) - 1)}

\* Path.mkdir(parents=True, exist_ok=False) of a path that is not there
mkdir_parents(dsk, path) ==
    LET new == (ProperPrefixes(path) \cup {path}) \ DOMAIN dsk
    IN [q \in DOMAIN dsk \cup new |-> IF q \in DOMAIN dsk THEN dsk[q] ELSE ADir]

write_text(dsk, path, content) ==
    [q \in DOMAIN dsk \cup {path} |-> IF q = path THEN AFile(content) ELSE dsk[q]]

\* the layout under run_dir: lines 46-51
RunPaths(run_dir) ==
    [run_dir |-> run_dir,
     meta_dir |-> Append(run_dir, S_meta),
     logs_dir |-> Append(run_dir, S_logs),
     ckpts_dir |-> Append(run_dir, S_ckpts),
     artifacts_dir |-> Append(run_dir, S_artifacts),
     metrics_jsonl |-> Append(Append(run_dir, S_logs), S_metrics_jsonl),
     ckpt_last_dir |-> Append(Append(run_dir, S_ckpts), S_last)]

\* Mutant of create_run_dir: the run directory is made with exist_ok=True
create_run_dir_exist_ok(dsk, run_root, experiment_name, run_id) ==
    LET paths == RunPaths(Append(run_root, run_dir_name(experiment_name, run_id)))
        d1 == mkdir_parents(dsk, paths.run_dir)
        d2 == mkdir_parents(d1, paths.meta_dir)
        d3 == mkdir_parents(d2, paths.logs_dir)
        d4 == mkdir_parents(d3, paths.ckpts_dir)
        d5 == mkdir_parents(d4, paths.artifacts_dir)
        d6 == mkdir_parents(d5, paths.ckpt_last_dir)
    IN IF \E q \in ProperPrefixes(paths.run_dir) : q \in DOMAIN dsk /\ dsk[q].kind = "file"
       THEN [outcome |-> "NotADirectoryError", disk |-> dsk, paths |-> paths]
       ELSE [outcome |-> "ok", disk |-> write_text(d6, paths.metrics_jsonl, <<>>),
             paths |-> paths]

\* create_run_dir(run_root, experiment_name, run_id=run_id): [outcome, disk, paths]
create_run_dir(dsk, run_root, experiment_name, run_id) ==
    LET paths == RunPaths(Append(run_root, run_dir_name(experiment_name, run_id)))
        d1 == mkdir_parents(dsk, paths.run_dir)
        d2 == mkdir_parents(d1, paths.meta_dir)
        d3 == mkdir_parents(d2, paths.logs_dir)
        d4 == mkdir_parents(d3, paths.ckpts_dir)
        d5 == mkdir_parents(d4, paths.artifacts_dir)
        d6 == mkdir_parents(d5, paths.ckpt_last_dir)
    IN IF paths.run_dir \in DOMAIN dsk
       THEN [outcome |-> "FileExistsError", disk |-> dsk, paths |-> paths]
       ELSE IF \E q \in ProperPrefixes(paths.run_dir) :
                   q \in DOMAIN dsk /\ dsk[q].kind = "file"
       THEN [outcome |-> "NotADirectoryError", disk |-> dsk, paths |-> paths]
       ELSE [outcome |-> "ok", disk |-> write_text(d6, paths.metrics_jsonl, <<>>),
             paths |-> paths]

(***************************************************************************)
(* diffusion_core/config/config_utils.py.  A YAML text is the list of its  *)
(* lines [indent, key, val]; val is a scalar as written, plain or quoted,  *)
(* or the start of a nested mapping.  Config objects live in a heap: an    *)
(* object's identity is its index there.                                   *)
(***************************************************************************)
Digits == <<"0", "1", "2", "3", "4", "5", "6", "7", "8", "9">>

IsDigit(c) == \E d \in 1..10 : Digits[d] = c
DigitValue(c) == (CHOOSE d \in 1..10 : Digits[d] = c) - 1

\* int(s) of a string of digits
RECURSIVE ToInt(_)
ToInt(chars) ==
    IF chars = <<>> THEN 0
    ELSE 10 * ToInt(SubSeq(chars, 1, Len(chars) - 1)) + DigitValue(chars[Len(chars)])

\* str(n) for n >= 0
RECURSIVE IntChars(_)
IntChars(n) ==
    IF n < 10 THEN <<Digits[n + 1]>>
    ELSE IntChars(n \div 10) \o <<Digits[(n % 10) + 1]>>

AllDigits(chars) == chars # <<>> /\ \A k \in 1..Len(chars) : IsDigit(chars[k])

S_null == <<"n","u","l","l">>

Plain(chars) == [style |-> "plain", chars |-> chars]
Quoted(chars) == [style |-> "quoted", chars |-> chars]
Mapping == [style |-> "map", chars |-> <<>>]
YamlLine(indent, key, val) == [indent |-> indent, key |-> key, val |-> val]

\* the Python value of a YAML scalar: [type, s, n]
IntValue(n) == [type |-> "int", s |-> <<>>, n |-> n]
StrValue(chars) == [type |-> "str", s |-> chars, n |-> 0]
NoneValue == [type |-> "none", s |-> <<>>, n |-> 0]

yaml_resolve(val) ==
    IF val.style = "quoted" THEN StrValue(val.chars)
    ELSE IF AllDigits(val.chars) THEN IntValue(ToInt(val.chars))
    ELSE IF val.chars = <<>> \/ val.chars = S_null THEN NoneValue
    ELSE StrValue(val.chars)

\* yaml.safe_dump of a scalar: a string that would read back as another type is quoted
yaml_represent(value) ==
    IF value.type = "int" THEN Plain(IntChars(value.n))
    ELSE IF value.type = "none" THEN Plain(S_null)
    ELSE IF yaml_resolve(Plain(value.s)).type # "str" THEN Quoted(value.s)
    ELSE Plain(value.s)

\* yaml.safe_load(f) or {}: the top-level keys, and the keys nested under `run`
TopLines(lines) == {k \in 1..Len(lines) : lines[k].indent = 0}
NestedLines(lines) == {k \in 1..Len(lines) : lines[k].indent = 1}
LineOf(lines, among, key) == CHOOSE k \in among : lines[k].key = key
HasKey(lines, among, key) == \E k \in among : lines[k].key = key

yaml_safe_load(lines) ==
    [top |-> {lines[k].key : k \in TopLines(lines)},
     nested |-> {lines[k].key : k \in NestedLines(lines)},
     lines |-> lines]

\* the value of an int field: pydantic takes an int, or a string of digits
AsInt(value) ==
    IF value.type = "int" THEN [ok |-> TRUE, n |-> value.n]
    ELSE IF value.type = "str" /\ AllDigits(value.s) THEN [ok |-> TRUE, n |-> ToInt(value.s)]
    ELSE [ok |-> FALSE, n |-> 0]

\* AppConfig.model_validate(raw): [ok, seed, experiment_name, run_root]; unknown
\* keys are errors (extra="forbid"), absent keys take their defaults
model_validate(raw) ==
    LET lines == raw.lines
        top == TopLines(lines)
        nested == NestedLines(lines)
        seed == IF "seed" \in raw.top
                THEN AsInt(yaml_resolve(lines[LineOf(lines, top, "seed")].val))
                ELSE [ok |-> TRUE, n |-> 0]
        name == IF "experiment_name" \in raw.nested
                THEN yaml_resolve(lines[LineOf(lines, nested, "experiment_name")].val)
                ELSE StrValue(S_smoke)
        root == IF "run_root" \in raw.nested
                THEN yaml_resolve(lines[LineOf(lines, nested, "run_root")].val)
                ELSE StrValue(S_runs)
        bad == [ok |-> FALSE, seed |-> 0, experiment_name |-> <<>>, run_root |-> <<>>]
    IN IF ~(raw.top \subseteq {"seed", "run"}) THEN bad
       ELSE IF ~(raw.nested \subseteq {"experiment_name", "run_root"}) THEN bad
       ELSE IF "run" \in raw.top /\ lines[LineOf(lines, top, "run")].val.style # "map" THEN bad
       ELSE IF ~seed.ok \/ name.type # "str" \/ root.type # "str" THEN bad
       ELSE [ok |-> TRUE, seed |-> seed.n, experiment_name |-> name.s, run_root |-> root.s]

RunConfig(experiment_name, run_root) ==
    [cls |-> "RunConfig", experiment_name |-> experiment_name, run_root |-> run_root]
AppConfig(seed, run) == [cls |-> "AppConfig", seed |-> seed, run |-> run]

\* load_config(path): [outcome, heap, ref]
load_config(dsk, hp, path) ==
    IF path \notin DOMAIN dsk THEN [outcome |-> "FileNotFoundError", heap |-> hp, ref |-> 0]
    ELSE IF dsk[path].kind = "dir" THEN [outcome |-> "IsADirectoryError", heap |-> hp, ref |-> 0]
    ELSE LET m == model_validate(yaml_safe_load(dsk[path].content))
         IN IF ~m.ok THEN [outcome |-> "ValidationError", heap |-> hp, ref |-> 0]
            ELSE [outcome |-> "ok",
                  heap |-> hp \o <<RunConfig(m.experiment_name, m.run_root),
                                   AppConfig(m.seed, Len(hp) + 1)>>,
                  ref |-> Len(hp) + 2]

Slash == <<"/">>

\* str(path): the parts joined by "/", "." for the empty path
RECURSIVE PathStr(_)
PathStr(path) ==
    IF path = <<>> THEN <<".">>
    ELSE IF Len(path) = 1 THEN path[1]
    ELSE PathStr(SubSeq(path, 1, Len(path) - 1)) \o Slash \o path[Len(path)]

\* Mutant of with_run_root: the run config is updated in place and cfg returned
with_run_root_in_place(hp, cfg, run_root) ==
    [heap |-> [hp EXCEPT ![hp[cfg].run].run_root = PathStr(run_root)], ref |-> cfg]

\* with_run_root(cfg, run_root): [heap, ref]; model_copy makes a new object
with_run_root(hp, cfg, run_root) ==
    [heap |-> hp \o <<[hp[hp[cfg].run] EXCEPT !.run_root = PathStr(run_root)],
                      [hp[cfg] EXCEPT !.run = Len(hp) + 1]>>,
     ref |-> Len(hp) + 2]

\* cfg.model_dump(mode="python") put out by yaml.safe_dump(sort_keys=True)
yaml_safe_dump(hp, cfg) ==
    << YamlLine(0, "run", Mapping),
       YamlLine(1, "experiment_name", yaml_represent(StrValue(hp[hp[cfg].run].experiment_name))),
       YamlLine(1, "run_root", yaml_represent(StrValue(hp[hp[cfg].run].run_root))),
       YamlLine(0, "seed", yaml_represent(IntValue(hp[cfg].seed))) >>

\* write_resolved_yaml(cfg, out_path): the file system after it
write_resolved_yaml(dsk, hp, cfg, out_path) == write_text(dsk, out_path, yaml_safe_dump(hp, cfg))

(***************************************************************************)
(* diffusion_core/config/runner.py                                         *)
(***************************************************************************)
\* Mutant of run_once: the snapshot is written of the config as loaded
run_once_snapshot_as_loaded(dsk, config_path, run_root, run_id) ==
    LET c == load_config(dsk, <<>>, config_path)
        w == with_run_root(c.heap, c.ref, run_root)
        r == create_run_dir(dsk, run_root, w.heap[w.heap[w.ref].run].experiment_name, run_id)
    IN IF c.outcome # "ok" THEN [outcome |-> c.outcome, disk |-> dsk, run_dir |-> <<>>]
       ELSE IF r.outcome # "ok" THEN [outcome |-> r.outcome, disk |-> dsk, run_dir |-> <<>>]
       ELSE [outcome |-> "ok",
             disk |-> write_resolved_yaml(r.disk, c.heap, c.ref,
                                          Append(r.paths.run_dir, S_config_resolved_yaml)),
             run_dir |-> r.paths.run_dir]

\* run_once(config_path=, run_root=, run_id=): [outcome, disk, run_dir]
run_once(dsk, config_path, run_root, run_id) ==
    LET c == load_config(dsk, <<>>, config_path)
        w == with_run_root(c.heap, c.ref, run_root)
        r == create_run_dir(dsk, run_root, w.heap[w.heap[w.ref].run].experiment_name, run_id)
    IN IF c.outcome # "ok" THEN [outcome |-> c.outcome, disk |-> dsk, run_dir |-> <<>>]
       ELSE IF r.outcome # "ok" THEN [outcome |-> r.outcome, disk |-> dsk, run_dir |-> <<>>]
       ELSE [outcome |-> "ok",
             disk |-> write_resolved_yaml(r.disk, w.heap, w.ref,
                                          Append(r.paths.run_dir, S_config_resolved_yaml)),
             run_dir |-> r.paths.run_dir]

(***************************************************************************)
(* Calls of the run-layout and config functions.  lcall is the last call:  *)
(* its arguments, its outcome, and the file system and heap it started on. *)
(***************************************************************************)
NoCall == [op |-> "none", outcome |-> "none", root |-> <<>>, name |-> <<>>, id |-> <<>>,
           path |-> <<>>, dir |-> <<>>, cfg |-> 0, result |-> 0,
           diskBefore |-> <<>>, heapBefore |-> <<>>]

Call(op, outcome, root, name, id, path, dir, cfg, result) ==
    [op |-> op, outcome |-> outcome, root |-> root, name |-> name, id |-> id,
     path |-> path, dir |-> dir, cfg |-> cfg, result |-> result,
     diskBefore |-> disk, heapBefore |-> heap]

\* the config files of the working directory
S_empty_yaml == <<"e","m","p","t","y",".","y","a","m","l">>
S_full_yaml == <<"f","u","l","l",".","y","a","m","l">>
S_quoted_yaml == <<"q","u","o","t","e","d",".","y","a","m","l">>
S_extra_yaml == <<"e","x","t","r","a",".","y","a","m","l">>
S_badseed_yaml == <<"b","a","d","s","e","e","d",".","y","a","m","l">>
S_none_yaml == <<"n","o","n","e",".","y","a","m","l">>
S_nested_yaml == <<"n","e","s","t","e","d",".","y","a","m","l">>

ConfigFiles ==
    [q \in {<<S_empty_yaml>>, <<S_full_yaml>>, <<S_quoted_yaml>>, <<S_extra_yaml>>,
            <<S_badseed_yaml>>, <<S_nested_yaml>>} |->
        IF q = <<S_empty_yaml>> THEN AFile(<<>>)
        ELSE IF q = <<S_full_yaml>>
        THEN AFile(<< YamlLine(0, "seed", Plain(<<"7">>)),
                      YamlLine(0, "run", Mapping),
                      YamlLine(1, "experiment_name", Plain(<<"a", " ", "b">>)),
                      YamlLine(1, "run_root", Plain(S_out)) >>)
        ELSE IF q = <<S_quoted_yaml>>
        THEN AFile(<< YamlLine(0, "run", Mapping),
                      YamlLine(1, "experiment_name", Quoted(<<"1", "2">>)),
                      YamlLine(0, "seed", Quoted(<<"1", "2">>)) >>)
        ELSE IF q = <<S_extra_yaml>>
        THEN AFile(<< YamlLine(0, "seed", Plain(<<"1">>)),
                      YamlLine(0, "lr", Plain(<<"3">>)) >>)
        ELSE IF q = <<S_nested_yaml>>
        THEN AFile(<< YamlLine(0, "run", Mapping),
                      YamlLine(1, "experiment_name", Plain(S_run)),
                      YamlLine(1, "lr", Plain(<<"3">>)) >>)
        ELSE AFile(<< YamlLine(0, "seed", Plain(<<"a", "b">>)) >>)]

ConfigPaths == DOMAIN ConfigFiles \cup {<<S_none_yaml>>}

RunRoots == {<<S_runs>>, <<S_out, S_runs>>, <<S_full_yaml>>}

ExperimentNames ==
    {S_smoke, S_run, <<"a", " ", "b">>, <<"a", "-", "b">>, <<"-", "a", "-">>,
     <<>>, <<"-", "-">>, <<"a", "_", "b">>, <<"b">>, <<"1", "2">>}

RunIds == {<<"r", "1">>, <<"r", "1", "_", "a">>}

\* the AppConfig objects of a heap
AppConfigs(hp) == {k \in 1..Len(hp) : hp[k].cls = "AppConfig"}

CreateRunDir ==
    /\ ncalls < MaxCalls
    /\ \E run_root \in RunRoots, experiment_name \in ExperimentNames, run_id \in RunIds :
          LET r == create_run_dir(disk, run_root, experiment_name, run_id)
          IN /\ disk' = r.disk
             /\ lcall' = Call("create_run_dir", r.outcome, run_root, experiment_name, run_id,
                              <<>>, r.paths.run_dir, 0, 0)
    /\ ncalls' = ncalls + 1
    /\ UNCHANGED heap
    /\ UNCHANGED <<runVars, escVars, guardVars, blockVars, provVars>>

\* Mutant of RunOnce: the run directory is laid out before the config is
\* validated, so a config that fails leaves the layout of the default name behind
RunOnceLayoutFirst ==
    /\ ncalls < MaxCalls
    /\ \E config_path \in ConfigPaths, run_root \in RunRoots, run_id \in RunIds :
          LET r == run_once(disk, config_path, run_root, run_id)
          IN /\ disk' = IF r.outcome \in {"FileNotFoundError", "ValidationError"}
                        THEN create_run_dir(disk, run_root, S_smoke, run_id).disk
                        ELSE r.disk
             /\ lcall' = Call("run_once", r.outcome, run_root, <<>>, run_id,
                              config_path, r.run_dir, 0, 0)
    /\ ncalls' = ncalls + 1
    /\ UNCHANGED heap
    /\ UNCHANGED <<runVars, escVars, guardVars, blockVars, provVars>>

\* run_once(config_path=, run_root=, run_id=) called on the file system
RunOnce ==
    /\ ncalls < MaxCalls
    /\ \E config_path \in ConfigPaths, run_root \in RunRoots, run_id \in RunIds :
          LET r == run_once(disk, config_path, run_root, run_id)
          IN /\ disk' = r.disk
             /\ lcall' = Call("run_once", r.outcome, run_root, <<>>, run_id,
                              config_path, r.run_dir, 0, 0)
    /\ ncalls' = ncalls + 1
    /\ UNCHANGED heap
    /\ UNCHANGED <<runVars, escVars, guardVars, blockVars, provVars>>

LoadConfig ==
    /\ ncalls < MaxCalls
    /\ \E path \in ConfigPaths :
          LET c == load_config(disk, heap, path)
          IN /\ heap' = c.heap
             /\ lcall' = Call("load_config", c.outcome, <<>>, <<>>, <<>>, path, <<>>, 0, c.ref)
    /\ ncalls' = ncalls + 1
    /\ UNCHANGED disk
    /\ UNCHANGED <<runVars, escVars, guardVars, blockVars, provVars>>

WithRunRoot ==
    /\ ncalls < MaxCalls
    /\ \E cfg \in AppConfigs(heap), run_root \in RunRoots :
          LET w == with_run_root(heap, cfg, run_root)
          IN /\ heap' = w.heap
             /\ lcall' = Call("with_run_root", "ok", run_root, <<>>, <<>>, <<>>, <<>>,
                              cfg, w.ref)
    /\ ncalls' = ncalls + 1
    /\ UNCHANGED disk
    /\ UNCHANGED <<runVars, escVars, guardVars, blockVars, provVars>>

NextRuns == CreateRunDir \/ RunOnce \/ LoadConfig \/ WithRunRoot

InitNoLayout ==
    /\ disk = << >>
    /\ heap = <<>>
    /\ lcall = NoCall
    /\ ncalls = 0

S_dot_git == <<".","g","i","t">>
S_tmp == <<"t","m","p">>
S_data == <<"d","a","t","a">>
S_cache == <<"c","a","c","h","e">>
S_good_dat == <<"g","o","o","d",".","d","a","t">>
S_big_dat == <<"b","i","g",".","d","a","t">>
S_model_PT == <<"m","o","d","e","l",".","P","T">>

(***************************************************************************)
(* tools/blocks_artifacts.py.  A path is the list of its parts; the working *)
(* tree gives the size of each file that exists.                           *)
(***************************************************************************)
FORBIDDEN_DIR_NAMES ==
    {<<"r","u","n","s">>,
     <<"r","u","n">>,
     <<"c","h","e","c","k","p","o","i","n","t","s">>,
     <<"c","h","e","c","k","p","o","i","n","t">>,
     <<"c","k","p","t","s">>,
     <<"c","k","p","t">>,
     <<"d","a","t","a">>,
     <<"d","a","t","a","s","e","t">>,
     <<"d","a","t","a","s","e","t","s">>,
     <<"c","a","c","h","e","s">>,
     <<"c","a","c","h","e">>,
     <<".","c","a","c","h","e">>,
     <<"w","a","n","d","b">>,
     <<"l","i","g","h","t","n","i","n","g","_","l","o","g","s">>}

FORBIDDEN_EXTS ==
    {<<".","p","t">>,
     <<".","p","t","h">>,
     <<".","c","k","p","t">>,
     <<".","s","a","f","e","t","e","n","s","o","r","s">>,
     <<".","o","n","n","x">>,
     <<".","n","p","z">>,
     <<".","n","p","y">>,
     <<".","p","k","l">>,
     <<".","p","i","c","k","l","e">>,
     <<".","j","o","b","l","i","b">>,
     <<".","z","i","p">>,
     <<".","t","a","r">>,
     <<".","t","g","z">>,
     <<".","g","z">>,
     <<".","7","z">>,
     <<".","r","a","r">>}

DEFAULT_MAX_BYTES == 20 * 1024 * 1024

\* the names the module blocks_artifacts defines
ModuleNames ==
    {"FORBIDDEN_DIR_NAMES", "FORBIDDEN_EXTS", "DEFAULT_MAX_BYTES", "Violation", "_run_git",
     "_list_staged_files", "_list_repo_files", "_is_under_forbidden_dir",
     "_is_forbidden_ext", "_is_too_large", "_check_paths", "main"}

NoSize == -1

Violation(path, reason) == [path |-> path, reason |-> reason]
Reason(text, a, b) == [text |-> text, a |-> a, b |-> b]
NoReason == Reason("", <<>>, <<>>)

\* Path.suffix: from the last dot of the name, unless the dot starts or ends it
suffix(path) ==
    LET name == IF path = <<>> THEN <<>> ELSE path[Len(path)]
        dots == {k \in 1..Len(name) : name[k] = "."}
        i == CHOOSE k \in dots : \A j \in dots : j <= k
    IN IF dots # {} /\ 1 < i /\ i < Len(name) THEN SubSeq(name, i, Len(name)) ELSE <<>>

_is_under_forbidden_dir(path) ==
    LET hits == {k \in 1..Len(path) : path[k] \in FORBIDDEN_DIR_NAMES}
        first == CHOOSE k \in hits : \A j \in hits : k <= j
    IN IF hits # {}
       THEN [bad |-> TRUE, reason |-> Reason("forbidden directory segment", path[first], <<>>)]
       ELSE [bad |-> FALSE, reason |-> NoReason]

_is_forbidden_ext(path) ==
    LET suf == lower(suffix(path))
    IN IF suf \in FORBIDDEN_EXTS
       THEN [bad |-> TRUE, reason |-> Reason("forbidden extension", suf, <<>>)]
       ELSE [bad |-> FALSE, reason |-> NoReason]

\* path.stat() raises FileNotFoundError for a path that is not in the tree
_is_too_large(tr, path, max_bytes) ==
    IF tr[path] = NoSize THEN [bad |-> FALSE, reason |-> NoReason]
    ELSE IF tr[path] > max_bytes
    THEN [bad |-> TRUE,
          reason |-> Reason("file too large", IntChars(tr[path]), IntChars(max_bytes))]
    ELSE [bad |-> FALSE, reason |-> NoReason]

\* the violations of one path: none, or the first of directory, extension, size
CheckPath(tr, path, max_bytes) ==
    IF path # <<>> /\ path[1] = S_dot_git THEN <<>>
    ELSE IF _is_under_forbidden_dir(path).bad
    THEN <<Violation(path, _is_under_forbidden_dir(path).reason)>>
    ELSE IF _is_forbidden_ext(path).bad
    THEN <<Violation(path, _is_forbidden_ext(path).reason)>>
    ELSE IF _is_too_large(tr, path, max_bytes).bad
    THEN <<Violation(path, _is_too_large(tr, path, max_bytes).reason)>>
    ELSE <<>>

RECURSIVE _check_paths(_, _, _)
_check_paths(tr, paths, max_bytes) ==
    IF paths = <<>> THEN <<>>
    ELSE CheckPath(tr, Head(paths), max_bytes) \o _check_paths(tr, Tail(paths), max_bytes)

\* ba.<name>(paths, max_bytes=max_bytes), as the tests call the module: a name
\* the module does not define raises AttributeError
call_attr(tr, name, paths, max_bytes) ==
    IF name \notin ModuleNames THEN [outcome |-> "AttributeError", violations |-> <<>>]
    ELSE IF name = "_check_paths"
    THEN [outcome |-> "ok", violations |-> _check_paths(tr, paths, max_bytes)]
    ELSE [outcome |-> "TypeError", violations |-> <<>>]

\* main(): 2 when git fails, 0 when the listed files are clean, else 1
blocker_main(tr, listing, max_bytes) ==
    IF ~listing.ok THEN [rc |-> 2, violations |-> <<>>]
    ELSE IF _check_paths(tr, listing.files, max_bytes) = <<>> THEN [rc |-> 0, violations |-> <<>>]
    ELSE [rc |-> 1, violations |-> _check_paths(tr, listing.files, max_bytes)]

NoBlockCall == [op |-> "none", outcome |-> "none", paths |-> <<>>, max_bytes |-> 0,
                violations |-> <<>>, rc |-> -1]

BlockPaths ==
    {<<S_tmp, S_good_dat>>, <<S_dot_git, S_big_dat>>, <<S_data, S_good_dat>>,
     <<S_tmp, S_model_PT>>, <<S_cache>>}

Sizes == {5, DEFAULT_MAX_BYTES + 1}
MaxBytes == {4, DEFAULT_MAX_BYTES}

PathLists == SeqsUpTo(BlockPaths, MaxPaths)

\* a test calls a function of the module by name
CallModule ==
    /\ bcall.op = "none"
    /\ \E name \in {"scan_paths", "_check_paths"}, paths \in PathLists, max_bytes \in MaxBytes :
          LET r == call_attr(tree, name, paths, max_bytes)
          IN bcall' = [op |-> name, outcome |-> r.outcome, paths |-> paths,
                       max_bytes |-> max_bytes, violations |-> r.violations, rc |-> -1]
    /\ UNCHANGED tree
    /\ UNCHANGED <<runVars, escVars, guardVars, layoutVars, provVars>>

\* the tool runs on the files git lists
BlockerMain ==
    /\ bcall.op = "none"
    /\ \E files \in PathLists, git_ok \in BOOLEAN, max_bytes \in MaxBytes :
          LET r == blocker_main(tree, [ok |-> git_ok, files |-> files], max_bytes)
          IN bcall' = [op |-> "main", outcome |-> "ok",
                       paths |-> IF git_ok THEN files ELSE <<>>,
                       max_bytes |-> max_bytes, violations |-> r.violations, rc |-> r.rc]
    /\ UNCHANGED tree
    /\ UNCHANGED <<runVars, escVars, guardVars, layoutVars, provVars>>

NextBlock == CallModule \/ BlockerMain

InitNoBlock ==
    /\ tree = <<>>
    /\ bcall = NoBlockCall

(***************************************************************************)
(* diffusion_core/provenance.py.  provenance.json refers to four files by  *)
(* absolute path; a file's content is a number, 0 for a file that is not   *)
(* there.  sha256 is taken to be free of collisions.                       *)
(***************************************************************************)
ProvFiles == {"config", "uv_lock", "pip_freeze", "manifest"}
NoContent == 0

\* _sha256_file(path), for a file that is there
_sha256_file(content) == <<"#">> \o IntChars(content)

\* the text of manifest.json: one entry per listed file, with its sha256
ManifestContent(config, pip_freeze) == 10 + 3 * config + pip_freeze

NoProv == [written |-> FALSE, created_utc |-> <<>>, git_sha |-> <<>>, argv |-> <<>>,
           resolved_sha256 |-> <<>>, uv_lock_sha256 |-> <<>>, pip_freeze_sha256 |-> <<>>,
           manifest_sha256 |-> <<>>, seed |-> 0, torch_installed |-> FALSE]

S_utc == <<"2","0","2","6">>
S_head == <<"a","b","c","1">>

\* write_provenance_bundle(run_dir=, seed=, argv=): [outcome, files, json]
write_provenance_bundle(files, json, env, seed, args) ==
    LET f1 == [files EXCEPT !["pip_freeze"] = env.freeze]
        f2 == [f1 EXCEPT !["manifest"] = ManifestContent(f1["config"], f1["pip_freeze"])]
    IN IF ~env.in_repo THEN [outcome |-> "RuntimeError", files |-> files, json |-> json]
       ELSE IF files["uv_lock"] = NoContent
       THEN [outcome |-> "RuntimeError", files |-> files, json |-> json]
       ELSE IF env.freeze = NoContent
       THEN [outcome |-> "RuntimeError", files |-> files, json |-> json]
       ELSE IF f2["config"] = NoContent \/ ~env.has_head
       THEN [outcome |-> "RuntimeError", files |-> f2, json |-> json]
       ELSE [outcome |-> "ok", files |-> f2,
             json |-> [written |-> TRUE, created_utc |-> S_utc, git_sha |-> S_head,
                       argv |-> args,
                       resolved_sha256 |-> _sha256_file(f2["config"]),
                       uv_lock_sha256 |-> _sha256_file(f2["uv_lock"]),
                       pip_freeze_sha256 |-> _sha256_file(f2["pip_freeze"]),
                       manifest_sha256 |-> _sha256_file(f2["manifest"]),
                       seed |-> seed, torch_installed |-> env.torch]]

\* one referenced file: it is there and its sha256 is the recorded one
FileMatches(files, f, sha) == files[f] # NoContent /\ _sha256_file(files[f]) = sha

\* validate_provenance_file(path): [outcome, msg]
validate_provenance_file(files, json) ==
    IF ~json.written THEN [outcome |-> "AssertionError", msg |-> "Missing provenance file"]
    ELSE IF json.created_utc = <<>> \/ json.git_sha = <<>>
    THEN [outcome |-> "AssertionError", msg |-> "Expected non-empty string"]
    ELSE IF Len(json.argv) < 1
    THEN [outcome |-> "AssertionError", msg |-> "cli.argv missing/empty"]
    ELSE IF ~FileMatches(files, "config", json.resolved_sha256)
    THEN [outcome |-> "AssertionError", msg |-> "resolved config"]
    ELSE IF ~FileMatches(files, "uv_lock", json.uv_lock_sha256)
    THEN [outcome |-> "AssertionError", msg |-> "uv.lock"]
    ELSE IF ~FileMatches(files, "pip_freeze", json.pip_freeze_sha256)
    THEN [outcome |-> "AssertionError", msg |-> "pip freeze"]
    ELSE IF ~FileMatches(files, "manifest", json.manifest_sha256)
    THEN [outcome |-> "AssertionError", msg |-> "manifest"]
    ELSE [outcome |-> "ok", msg |-> ""]

NoProvCall == [op |-> "none", outcome |-> "none", msg |-> "", n |-> 0]

Contents == {1, 2}
ProvEnvs ==
    [in_repo : BOOLEAN, has_head : BOOLEAN, freeze : {NoContent} \cup Contents,
     torch : BOOLEAN]
Argvs == {<<>>, <<"prog">>, <<"prog", "run">>}
Seeds == {0, 7}

WriteProvenanceBundle ==
    /\ pcall.op # "idle"
    /\ pcall.n < MaxSteps
    /\ \E env \in ProvEnvs, seed \in Seeds, args \in Argvs :
          LET r == write_provenance_bundle(pfiles, pjson, env, seed, args)
          IN /\ pfiles' = r.files
             /\ pjson' = r.json
             /\ pwritten' = IF r.outcome = "ok" THEN r.files ELSE pwritten
             /\ pcall' = [op |-> "write_provenance_bundle", outcome |-> r.outcome,
                          msg |-> "", n |-> pcall.n + 1]
    /\ UNCHANGED <<runVars, escVars, guardVars, layoutVars, blockVars>>

ValidateProvenanceFile ==
    /\ pcall.op # "idle"
    /\ pcall.n < MaxSteps
    /\ LET r == validate_provenance_file(pfiles, pjson)
       IN pcall' = [op |-> "validate_provenance_file", outcome |-> r.outcome,
                    msg |-> r.msg, n |-> pcall.n + 1]
    /\ UNCHANGED <<pfiles, pjson, pwritten>>
    /\ UNCHANGED <<runVars, escVars, guardVars, layoutVars, blockVars>>

\* somebody rewrites or removes one of the referenced files
ChangeFile ==
    /\ pcall.op # "idle"
    /\ pcall.n < MaxSteps
    /\ \E f \in ProvFiles, content \in {NoContent} \cup Contents :
          /\ pfiles[f] # content
          /\ pfiles' = [pfiles EXCEPT ![f] = content]
    /\ pcall' = [op |-> "change", outcome |-> "ok", msg |-> "", n |-> pcall.n + 1]
    /\ UNCHANGED <<pjson, pwritten>>
    /\ UNCHANGED <<runVars, escVars, guardVars, layoutVars, blockVars>>

NextProv == WriteProvenanceBundle \/ ValidateProvenanceFile \/ ChangeFile

InitNoProv ==
    /\ pfiles = [f \in ProvFiles |-> NoContent]
    /\ pjson = NoProv
    /\ pwritten = [f \in ProvFiles |-> NoContent]
    /\ pcall = [NoProvCall EXCEPT !.op = "idle"]

\* the other tools are not running
InitNoExt == InitNoGuard /\ InitNoLayout /\ InitNoBlock /\ InitNoProv

(***************************************************************************)
(* Source files of the inputs.  A file is laid out from its statements:    *)
(* each statement brings its syntax node and the text lines it spans, and  *)
(* a definition's lineno is the line its `def` or `class` stands on.       *)
(***************************************************************************)
DocText == <<"D","o","c",".">>
DocBlank == <<" "," ">>

Foo == <<"F","o","o">>
Orig == <<"O","r","i","g">>
Local == <<"L","o","c","a","l">>
Hidden == <<"_","H","i","d","d","e","n">>
compute == <<"c","o","m","p","u","t","e">>

\* an expression statement holding a string constant
StrExpr(raw) ==
    [type |-> "Expr", value |-> [type |-> "Constant", isStr |-> TRUE, value |-> raw]]

\* the lines a string literal spans
DocLines(raw) == [k \in 1..Len(split_lines(raw)) |-> <<"doc">>]

\* a module's header docstring
DocStmt(raw) == [node |-> StrExpr(raw), text |-> DocLines(raw)]

\* def name(): with a docstring
DocDef(type, name, raw, line) ==
    [node |-> [type |-> type, name |-> name, lineno |-> 0,
               body |-> <<StrExpr(raw), [type |-> "Pass"]>>],
     text |-> <<line>> \o DocLines(raw) \o << <<"stmt">> >>]

\* def name(): without one
BareDef(type, name, line) ==
    [node |-> [type |-> type, name |-> name, lineno |-> 0, body |-> <<[type |-> "Pass"]>>],
     text |-> <<line, <<"stmt">> >>]

\* __all__ = [names]
AllList(names) ==
    [node |-> [type |-> "Assign", targets |-> <<"__all__">>,
               value |-> [type |-> "List",
                          elts |-> [k \in 1..Len(names) |->
                                      [type |-> "Constant", isStr |-> TRUE,
                                       value |-> names[k]]]]],
     text |-> << <<"stmt">> >>]

\* __all__ = sorted(names())
AllComputed ==
    [node |-> [type |-> "Assign", targets |-> <<"__all__">>, value |-> [type |-> "Call"]],
     text |-> << <<"stmt">> >>]

\* from <level dots><module> import name [as asname]
FromImport(level, module, name, asname) ==
    [node |-> [type |-> "ImportFrom", level |-> level, module |-> module,
               names |-> <<[name |-> name, asname |-> asname]>>],
     text |-> << <<"stmt">> >>]

\* __all__ = (names)
AllTuple(names) ==
    [node |-> [type |-> "Assign", targets |-> <<"__all__">>,
               value |-> [type |-> "Tuple",
                          elts |-> [k \in 1..Len(names) |->
                                      [type |-> "Constant", isStr |-> TRUE,
                                       value |-> names[k]]]]],
     text |-> << <<"stmt">> >>]

\* __all__ = [name, 1] and __all__ = [name, other()]: a list of which only some
\* elements are string constants
AllMixed(name, eltType) ==
    [node |-> [type |-> "Assign", targets |-> <<"__all__">>,
               value |-> [type |-> "List",
                          elts |-> <<[type |-> "Constant", isStr |-> TRUE, value |-> name],
                                     [type |-> eltType, isStr |-> FALSE, value |-> <<>>]>>]],
     text |-> << <<"stmt">> >>]

\* exported = __all__ = [names]
AllChained(names) ==
    [node |-> [type |-> "Assign", targets |-> <<"exported", "__all__">>,
               value |-> [type |-> "List",
                          elts |-> [k \in 1..Len(names) |->
                                      [type |-> "Constant", isStr |-> TRUE,
                                       value |-> names[k]]]]],
     text |-> << <<"stmt">> >>]

\* __all__: list[str] = <value>, an annotated assignment (ast.AnnAssign)
AllAnnotated(value) ==
    [node |-> [type |-> "AnnAssign", target |-> "__all__", value |-> value],
     text |-> << <<"stmt">> >>]

\* __all__ += <value>, an augmented assignment (ast.AugAssign)
AllAugmented(value) ==
    [node |-> [type |-> "AugAssign", target |-> "__all__", value |-> value],
     text |-> << <<"stmt">> >>]

ListOf(names) ==
    [type |-> "List",
     elts |-> [k \in 1..Len(names) |-> [type |-> "Constant", isStr |-> TRUE, value |-> names[k]]]]

\* <target> = make(): a name bound by a computed assignment
ComputedAssign(target) ==
    [node |-> [type |-> "Assign", targets |-> <<target>>, value |-> [type |-> "Call"]],
     text |-> << <<"stmt">> >>]

\* import module as asname (ast.Import)
ImportStmt(module, asname) ==
    [node |-> [type |-> "Import", names |-> <<[name |-> module, asname |-> asname]>>],
     text |-> << <<"stmt">> >>]

RECURSIVE Layout(_, _, _, _)
Layout(items, k, body, lines) ==
    IF k > Len(items)
    THEN [exists |-> TRUE, syntaxOK |-> TRUE, body |-> body, lines |-> lines]
    ELSE LET it == items[k]
             node == IF it.node.type \in DefTypes
                     THEN [it.node EXCEPT !.lineno = Len(lines) + 1]
                     ELSE it.node
         IN Layout(items, k + 1, Append(body, node), lines \o it.text)

SourceFile(items) == Layout(items, 1, <<>>, <<>>)

\* a file ast.parse rejects
BrokenFile == [exists |-> TRUE, syntaxOK |-> FALSE, body |-> <<>>, lines |-> << <<"stmt">> >>]

PlainLine == <<"def">>
EscapedLine == <<"def", "hash", "tok1", "sp", "why">>
BareEscapeLine == <<"def", "hash", "tok1", "sp">>

InitPy == P(<<"src", "diffusion_core">>, "__init__", ".py")
OtherInitPy == P(<<"src", "other_pkg">>, "__init__", ".py")
ApiMetricsPy == P(<<"src", "diffusion_core", "api">>, "metrics", ".py")
ApiSchemaJson == P(<<"src", "diffusion_core", "api">>, "schema", ".json")
ApiZetaPy == P(<<"src", "diffusion_core", "api", "sub">>, "zeta", ".py")
BarPy == P(<<"src", "diffusion_core">>, "bar", ".py")
BarInitPy == P(<<"src", "diffusion_core", "bar">>, "__init__", ".py")
ExecutorPy == P(<<"src", "diffusion_core">>, "executor", ".py")
GuardPy == P(<<"tools">>, "guard", ".py")

Universe == {PathOrder[k] : k \in 1..Len(PathOrder)}

(***************************************************************************)
(* The inputs of a run: the working tree, the command line, git's answer.  *)
(***************************************************************************)
\* src/diffusion_core/__init__.py
GoodEntry ==
    SourceFile(<<DocStmt(DocText), FromImport(1, <<"bar">>, Foo, <<>>), AllList(<<Foo>>)>>)
EntryNoAll == SourceFile(<<FromImport(1, <<"bar">>, Foo, <<>>)>>)
EntryComputedAll == SourceFile(<<DocStmt(DocText), AllComputed>>)
EntryFiles == {GoodEntry, EntryNoAll, EntryComputedAll, BrokenFile}

\* src/diffusion_core/bar.py
BarDocumented ==
    SourceFile(<<DocStmt(DocText), DocDef("FunctionDef", Foo, DocText, PlainLine)>>)
BarUndocumented ==
    SourceFile(<<DocStmt(DocText), BareDef("ClassDef", Orig, PlainLine),
                 BareDef("ClassDef", Foo, PlainLine)>>)
BarFiles == {BarDocumented, BarUndocumented}

\* src/diffusion_core/api/metrics.py
ApiGood ==
    SourceFile(<<DocStmt(DocText), DocDef("FunctionDef", compute, DocText, PlainLine),
                 BareDef("FunctionDef", Hidden, PlainLine)>>)
ApiBad ==
    SourceFile(<<BareDef("FunctionDef", Hidden, PlainLine),
                 BareDef("AsyncFunctionDef", compute, PlainLine)>>)
ApiMetricsFiles == {NoFile, ApiGood, ApiBad, BrokenFile}

\* src/diffusion_core/api/sub/zeta.py
ZetaEscaped == SourceFile(<<DocStmt(DocText), BareDef("FunctionDef", compute, EscapedLine)>>)
ZetaBareEscape ==
    SourceFile(<<DocStmt(DocText), BareDef("FunctionDef", compute, BareEscapeLine)>>)
ApiZetaFiles == {ZetaEscaped, ZetaBareEscape}

\* src/diffusion_core/executor.py
CoreGood == SourceFile(<<DocStmt(DocText), BareDef("FunctionDef", compute, PlainLine)>>)
CoreBad == SourceFile(<<BareDef("FunctionDef", compute, PlainLine)>>)
ExecutorFiles == {NoFile, CoreGood, CoreBad}

Scopes == {"staged", "range", "all"}

\* lists without repetition: git names a changed file once
Distinct(s) == \A a, b \in 1..Len(s) : a # b => s[a] # s[b]

ChangedPool == {InitPy, ApiMetricsPy, ApiZetaPy, ExecutorPy, BarPy, ApiSchemaJson}

GitFails == [ok |-> FALSE, files |-> <<>>]
GitAnswers(pool) ==
    {GitFails} \cup {[ok |-> TRUE, files |-> s] : s \in {x \in SeqsUpTo(pool, MaxChanged) : Distinct(x)}}

Tree(entry, other, bar, metrics, zeta, executor) ==
    [q \in Universe |->
        CASE q = InitPy -> entry
          [] q = OtherInitPy -> other
          [] q = BarPy -> bar
          [] q = BarInitPy -> NoFile
          [] q = ApiMetricsPy -> metrics
          [] q = ApiZetaPy -> zeta
          [] q = ExecutorPy -> executor
          [] q = ApiSchemaJson -> BrokenFile
          [] q = GuardPy -> CoreBad]

InitRunVars ==
    /\ pc = "start"
    /\ pkgDir = <<>>
    /\ targets = <<>>
    /\ ti = 1
    /\ violations = <<>>
    /\ trace = <<>>
    /\ stdout = NoStdout
    /\ stderr = NoDiag
    /\ status = -1

InitNoScan ==
    /\ def_line = <<>>
    /\ scanned = TRUE
    /\ suppressed = FALSE

\* main() of the docstring enforcer is not running
InitNoRun ==
    /\ pc = "idle"
    /\ pkgDir = <<>>
    /\ targets = <<>>
    /\ ti = 1
    /\ violations = <<>>
    /\ trace = <<>>
    /\ stdout = NoStdout
    /\ stderr = NoDiag
    /\ status = -1
    /\ fs = [q \in Universe |-> NoFile]
    /\ argv = [pkg |-> "", scope |-> "all"]
    /\ gitOut = GitFails

InitGuard ==
    /\ InitNoRun
    /\ InitNoScan
    /\ gpc = "revparse"
    /\ genv \in GitEnvs
    /\ gcalls = <<>>
    /\ grc = -1
    /\ gmsg = ""
    /\ InitNoLayout
    /\ InitNoBlock
    /\ InitNoProv

SpecGuard == InitGuard /\ [][NextGuard]_vars

\* the working directory holds the config files; no run was made yet
InitRuns ==
    /\ InitNoRun
    /\ InitNoScan
    /\ InitNoGuard
    /\ InitNoBlock
    /\ InitNoProv
    /\ disk = ConfigFiles
    /\ heap = <<>>
    /\ lcall = NoCall
    /\ ncalls = 0

\* a working tree of files of several sizes; no call was made yet
InitBlock ==
    /\ InitNoRun
    /\ InitNoScan
    /\ InitNoGuard
    /\ InitNoLayout
    /\ InitNoProv
    /\ tree \in [BlockPaths -> {NoSize} \cup Sizes]
    /\ bcall = NoBlockCall

SpecBlock == InitBlock /\ [][NextBlock]_vars

\* a run directory with or without its config snapshot, a repository with or
\* without uv.lock; no provenance was written yet
InitProv ==
    /\ InitNoRun
    /\ InitNoScan
    /\ InitNoGuard
    /\ InitNoLayout
    /\ InitNoBlock
    /\ pfiles \in {[f \in ProvFiles |-> IF f = "config" THEN c ELSE IF f = "uv_lock" THEN u
                                         ELSE NoContent] :
                      c \in {NoContent, 1}, u \in {NoContent, 1}}
    /\ pjson = NoProv
    /\ pwritten = [f \in ProvFiles |-> NoContent]
    /\ pcall = NoProvCall

SpecProv == InitProv /\ [][NextProv]_vars

SpecRuns == InitRuns /\ [][NextRuns]_vars

\* one package under src/, --pkg absent: the working tree and the scope vary
InitTrees ==
    /\ \E entry \in EntryFiles, bar \in BarFiles, metrics \in ApiMetricsFiles,
          zeta \in ApiZetaFiles, executor \in ExecutorFiles :
            fs = Tree(entry, NoFile, bar, metrics, zeta, executor)
    /\ \E scope \in Scopes : argv = [pkg |-> "", scope |-> scope]
    /\ IF argv.scope = "all"
       THEN gitOut = [ok |-> TRUE, files |-> <<>>]
       ELSE gitOut \in GitAnswers(ChangedPool)

\* the packages under src/ and --pkg vary
InitPackages ==
    /\ \E entry \in {NoFile, GoodEntry}, other \in {NoFile, EntryNoAll} :
            fs = Tree(entry, other, BarDocumented, ApiBad, ZetaEscaped, CoreBad)
    /\ \E pkg \in {"", "diffusion_core", "other_pkg", "nope"}, scope \in Scopes :
            argv = [pkg |-> pkg, scope |-> scope]
    /\ IF argv.scope = "all"
       THEN gitOut = [ok |-> TRUE, files |-> <<>>]
       ELSE gitOut \in GitAnswers({InitPy, OtherInitPy, GuardPy})

Init ==
    /\ InitRunVars
    /\ InitNoScan
    /\ InitNoExt
    /\ (InitTrees \/ InitPackages)

Spec == Init /\ [][Next]_vars

InitEscape ==
    /\ pc = "idle"
    /\ pkgDir = <<>>
    /\ targets = <<>>
    /\ ti = 1
    /\ violations = <<>>
    /\ trace = <<>>
    /\ stdout = NoStdout
    /\ stderr = NoDiag
    /\ status = -1
    /\ fs = [q \in Universe |-> NoFile]
    /\ argv = [pkg |-> "", scope |-> "all"]
    /\ gitOut = GitFails
    /\ def_line \in SeqsUpTo(Segs, MaxSegs)
    /\ scanned = FALSE
    /\ suppressed = FALSE
    /\ InitNoExt

SpecEscape == InitEscape /\ [][NextEscape]_vars

(***************************************************************************)
(* The inputs of a check of the entry file alone: the entry file's header, *)
(* imports and __all__ vary, and so do the definitions of bar.py.          *)
(***************************************************************************)
ExportNames == {Foo, Local, Hidden}

EntryHeaders == {<<>>, <<DocStmt(DocText)>>}
FooImports == {<<>>, <<FromImport(1, <<"bar">>, Foo, <<>>)>>,
               <<FromImport(1, <<"nomod">>, Foo, <<>>)>>}
LocalImports == {<<>>, <<FromImport(1, <<"bar">>, Orig, Local)>>}
HiddenImports == {<<>>, <<FromImport(1, <<"bar">>, Hidden, <<>>)>>}
AllDecls == {<<>>, <<AllComputed>>} \cup {<<AllList(s)>> : s \in SeqsUpTo(ExportNames, MaxExports)}

EntrySources ==
    {BrokenFile} \cup
    { SourceFile(h \o fi \o li \o hi \o a) :
        h \in EntryHeaders, fi \in FooImports, li \in LocalImports,
        hi \in HiddenImports, a \in AllDecls }

FooDefs == {<<>>, <<DocDef("FunctionDef", Foo, DocText, PlainLine)>>,
            <<BareDef("FunctionDef", Foo, PlainLine)>>,
            <<BareDef("FunctionDef", Foo, EscapedLine)>>}
OrigDefs == {<<>>, <<DocDef("ClassDef", Orig, DocText, PlainLine)>>,
             <<BareDef("ClassDef", Orig, PlainLine)>>}
LocalDefs == {<<>>, <<DocDef("ClassDef", Local, DocText, PlainLine)>>,
              <<BareDef("ClassDef", Local, PlainLine)>>}
HiddenDefs == {<<>>, <<BareDef("AsyncFunctionDef", Hidden, PlainLine)>>}

BarSources ==
    {BrokenFile} \cup
    { SourceFile(<<DocStmt(DocText)>> \o o \o l \o f \o h) :
        o \in OrigDefs, l \in LocalDefs, f \in FooDefs, h \in HiddenDefs }

InitEntry ==
    /\ InitRunVars
    /\ InitNoScan
    /\ InitNoExt
    /\ \E entry \in EntrySources, bar \in BarSources :
            fs = Tree(entry, NoFile, bar, NoFile, ZetaEscaped, NoFile)
    /\ argv = [pkg |-> "", scope |-> "staged"]
    /\ gitOut = [ok |-> TRUE, files |-> <<InitPy>>]

SpecEntry == InitEntry /\ [][Next]_vars

(***************************************************************************)
(* The inputs of a check of the entry file whose statements take every     *)
(* form: the way Foo is bound and the way __all__ is assigned vary.        *)
(***************************************************************************)
Star == <<"*">>

FooBindings ==
    { <<>>,
      <<FromImport(1, <<"bar">>, Foo, <<>>)>>,        \* from .bar import Foo
      <<FromImport(1, <<"bar">>, Orig, Foo)>>,        \* from .bar import Orig as Foo
      <<FromImport(1, <<>>, Foo, <<>>)>>,             \* from . import Foo
      <<FromImport(2, <<"bar">>, Foo, <<>>)>>,        \* from ..bar import Foo
      <<FromImport(2, <<"nomod">>, Foo, <<>>)>>,      \* from ..nomod import Foo
      <<FromImport(0, <<"bar">>, Foo, <<>>)>>,        \* from bar import Foo
      <<FromImport(1, <<"bar">>, Star, <<>>)>>,       \* from .bar import *
      <<ImportStmt(<<"bar">>, Foo)>>,                 \* import bar as Foo
      <<ComputedAssign("Foo")>> }                     \* Foo = make()

AllForms ==
    { <<>>,
      <<AllList(<<Foo>>)>>,
      <<AllTuple(<<Foo>>)>>,
      <<AllList(<<Foo, Foo>>)>>,
      <<AllChained(<<Foo>>)>>,
      <<AllComputed>>,
      <<AllMixed(Foo, "Constant")>>,
      <<AllMixed(Foo, "Call")>>,
      <<AllAnnotated([type |-> "Call"])>>,
      <<AllAnnotated(ListOf(<<Foo>>))>>,
      <<AllAugmented([type |-> "Call"])>>,
      <<AllList(<<Foo>>), AllAugmented([type |-> "Call"])>> }

FormSources ==
    { SourceFile(h \o b \o a) : h \in EntryHeaders, b \in FooBindings, a \in AllForms }

InitForms ==
    /\ InitRunVars
    /\ InitNoScan
    /\ InitNoExt
    /\ \E entry \in FormSources, bar \in {NoFile, BarDocumented, BarUndocumented} :
            fs = Tree(entry, NoFile, bar, NoFile, ZetaEscaped, NoFile)
    /\ argv = [pkg |-> "", scope |-> "staged"]
    /\ gitOut = [ok |-> TRUE, files |-> <<InitPy>>]

SpecForms == InitForms /\ [][Next]_vars

(***************************************************************************)
(* The inputs of a check of one API file: api/metrics.py holds one         *)
(* function, compute or _Hidden, documented or not, whose definition line  *)
(* carries a comment assembled from segments.                              *)
(***************************************************************************)
CommentSegs == {"hash", "docesc", "tok1", "sp", "why"}

ApiDefLines == {<<"def">> \o c : c \in SeqsUpTo(CommentSegs, MaxSegs)}

ApiSources ==
    { SourceFile(h \o <<d>>) :
        h \in EntryHeaders,
        d \in UNION { {BareDef("FunctionDef", compute, line),
                       DocDef("FunctionDef", compute, DocText, line),
                       BareDef("FunctionDef", Hidden, line)} : line \in ApiDefLines } }

InitApi ==
    /\ InitRunVars
    /\ InitNoScan
    /\ InitNoExt
    /\ \E metrics \in ApiSources :
            fs = Tree(GoodEntry, NoFile, BarDocumented, metrics, ZetaEscaped, NoFile)
    /\ argv = [pkg |-> "", scope |-> "staged"]
    /\ gitOut = [ok |-> TRUE, files |-> <<ApiMetricsPy>>]

SpecApi == InitApi /\ [][Next]_vars

(***************************************************************************)
(* The inputs of a check of an API file and a core file whose first        *)
(* statements and definitions take every shape: string literals of several *)
(* texts, a bytes literal, a docstring that is not the first statement,    *)
(* private, nested and repeated definitions.                               *)
(***************************************************************************)
Inner == <<"i","n","n","e","r">>

\* the texts of the string literals
DocRaws ==
    {DocText, <<>>, DocBlank, <<"\t">>, <<"\n">>, <<"\n", " ">>, <<" ", "\n", "D">>}

\* an expression statement holding a bytes literal
BytesExpr(raw) ==
    [type |-> "Expr", value |-> [type |-> "Constant", isStr |-> FALSE, value |-> raw]]

PassStmt == [node |-> [type |-> "Pass"], text |-> << <<"stmt">> >>]
BytesStmt(raw) == [node |-> BytesExpr(raw), text |-> DocLines(raw)]

\* def name(): whose body starts with a bytes literal
BytesDef(type, name, raw, line) ==
    [node |-> [type |-> type, name |-> name, lineno |-> 0,
               body |-> <<BytesExpr(raw), [type |-> "Pass"]>>],
     text |-> <<line>> \o DocLines(raw) \o << <<"stmt">> >>]

\* a definition inside another statement; nothing reads its lineno
NestedDef(name) ==
    [type |-> "FunctionDef", name |-> name, lineno |-> 0, body |-> <<[type |-> "Pass"]>>]

\* class name: with a docstring and an undocumented method
ClassWithMethod(name, method) ==
    [node |-> [type |-> "ClassDef", name |-> name, lineno |-> 0,
               body |-> <<StrExpr(DocText), NestedDef(method)>>],
     text |-> <<PlainLine, <<"doc">>, PlainLine, <<"stmt">> >>]

\* if x: def name(): ...
IfWithDef(name) ==
    [node |-> [type |-> "If", body |-> <<NestedDef(name)>>],
     text |-> << <<"stmt">>, PlainLine, <<"stmt">> >>]

Headers ==
    {<<>>, <<BytesStmt(DocText)>>, <<PassStmt, DocStmt(DocText)>>}
        \cup {<<DocStmt(raw)>> : raw \in DocRaws}

DefLines == {PlainLine, EscapedLine, BareEscapeLine}

FirstDefs ==
    UNION { {<<BareDef(type, name, line)>>, <<BytesDef(type, name, DocText, line)>>}
              \cup {<<DocDef(type, name, raw, line)>> : raw \in DocRaws} :
            type \in {"FunctionDef"}, name \in {compute, Hidden}, line \in DefLines }

MoreDefs ==
    {<<>>,
     <<BareDef("AsyncFunctionDef", Foo, PlainLine)>>,
     <<BareDef("ClassDef", compute, PlainLine)>>,
     <<ClassWithMethod(Orig, Inner)>>,
     <<IfWithDef(Inner)>>}

DocSources == { SourceFile(h \o d \o m) : h \in Headers, d \in FirstDefs, m \in MoreDefs }

CoreSources ==
    { SourceFile(h \o d) :
        h \in Headers,
        d \in {<<>>, <<BareDef("FunctionDef", compute, PlainLine)>>,
                <<DocDef("ClassDef", Foo, DocText, PlainLine)>>,
                <<BareDef("FunctionDef", compute, EscapedLine),
                  BareDef("AsyncFunctionDef", Foo, PlainLine)>>} }

InitDocs ==
    /\ InitRunVars
    /\ InitNoScan
    /\ InitNoExt
    /\ \/ \E metrics \in DocSources, executor \in {CoreGood, CoreBad} :
              fs = Tree(GoodEntry, NoFile, BarDocumented, metrics, ZetaEscaped, executor)
       \/ \E metrics \in {ApiGood, ApiBad}, executor \in CoreSources :
              fs = Tree(GoodEntry, NoFile, BarDocumented, metrics, ZetaEscaped, executor)
    /\ argv = [pkg |-> "", scope |-> "staged"]
    /\ gitOut = [ok |-> TRUE, files |-> <<ApiMetricsPy, ExecutorPy>>]

SpecDocs == InitDocs /\ [][Next]_vars

(***************************************************************************)
(* The inputs of a check of the entry file whose exports are looked up in  *)
(* their origin: Foo and Orig are bound by one or two relative imports,    *)
(* the module bar is a file, a package, both or neither, and Foo is        *)
(* defined at the top of it, inside another statement, twice or not at     *)
(* all.                                                                    *)
(***************************************************************************)
OriginImports ==
    { FromImport(1, <<"bar">>, Foo, <<>>),         \* from .bar import Foo
      FromImport(1, <<"bar">>, Orig, Foo),         \* from .bar import Orig as Foo
      FromImport(1, <<"nomod">>, Foo, <<>>),       \* from .nomod import Foo
      FromImport(1, <<>>, Foo, <<>>),              \* from . import Foo
      FromImport(1, <<"bar">>, Orig, <<>>),        \* from .bar import Orig
      FromImport(0, <<"nomod">>, Foo, <<>>) }      \* from nomod import Foo

OriginAlls == {<<Foo>>, <<Foo, Orig>>, <<Orig, Foo>>}

OriginEntries ==
    { SourceFile(<<DocStmt(DocText)>> \o i \o <<AllList(a)>>) :
        i \in {x \in SeqsUpTo(OriginImports, 2) : Distinct(x)}, a \in OriginAlls }

\* src/diffusion_core/bar.py
OriginBars ==
    {NoFile} \cup
    { SourceFile(<<DocStmt(DocText)>> \o d) :
        d \in { <<DocDef("FunctionDef", Foo, DocText, PlainLine)>>,
                <<BareDef("ClassDef", Foo, PlainLine)>>,
                <<BareDef("AsyncFunctionDef", Foo, EscapedLine)>>,
                <<BareDef("FunctionDef", Foo, BareEscapeLine),
                  BareDef("ClassDef", Orig, EscapedLine)>>,
                <<DocDef("FunctionDef", Foo, <<>>, EscapedLine)>>,
                <<IfWithDef(Foo)>>,
                <<IfWithDef(Foo), BareDef("FunctionDef", Foo, PlainLine),
                  DocDef("FunctionDef", Foo, DocText, PlainLine)>>,
                <<DocDef("FunctionDef", <<"f", "o", "o">>, DocText, PlainLine)>>,
                <<ComputedAssign("Foo")>>,
                <<ClassWithMethod(Orig, Foo)>>,
                <<ClassWithMethod(Orig, Foo), DocDef("FunctionDef", Foo, DocText, PlainLine)>>,
                <<BareDef("FunctionDef", Foo, PlainLine),
                  DocDef("FunctionDef", Foo, DocText, PlainLine)>>,
                <<DocDef("ClassDef", Foo, DocText, PlainLine),
                  BareDef("FunctionDef", Foo, PlainLine),
                  BareDef("ClassDef", Orig, PlainLine)>> } }

\* src/diffusion_core/bar/__init__.py
OriginPackages ==
    { NoFile,
      SourceFile(<<DocStmt(DocText), DocDef("FunctionDef", Foo, DocText, PlainLine)>>),
      SourceFile(<<BareDef("ClassDef", Orig, PlainLine),
                   BareDef("FunctionDef", Foo, PlainLine)>>) }

InitOrigin ==
    /\ InitRunVars
    /\ InitNoScan
    /\ InitNoExt
    /\ \E entry \in OriginEntries, bar \in OriginBars, package \in OriginPackages :
            fs = [Tree(entry, NoFile, bar, NoFile, ZetaEscaped, NoFile)
                    EXCEPT ![BarInitPy] = package]
    /\ argv = [pkg |-> "", scope |-> "staged"]
    /\ gitOut = [ok |-> TRUE, files |-> <<InitPy>>]

SpecOrigin == InitOrigin /\ [][Next]_vars

(***************************************************************************)
(* The inputs of a run over several files with several exports: the entry  *)
(* file exports up to MaxExports names, of which Foo is imported from      *)
(* bar.py, Orig from a missing module, and Local and _Hidden are not       *)
(* imported; the API files and the core file are documented or not; the    *)
(* scope and git's answer vary.                                            *)
(***************************************************************************)
ReportNames == {Foo, Orig, Local, Hidden}

ReportEntries ==
    { SourceFile(<<DocStmt(DocText), FromImport(1, <<"bar">>, Foo, <<>>),
                   FromImport(1, <<"nomod">>, Orig, <<>>), AllList(a)>>) :
        a \in {x \in SeqsUpTo(ReportNames, MaxExports) : x # <<>> /\ Distinct(x)} }

InitReport ==
    /\ InitRunVars
    /\ InitNoScan
    /\ InitNoExt
    /\ \E entry \in ReportEntries, bar \in BarFiles, metrics \in {ApiGood, ApiBad},
          executor \in {CoreGood, CoreBad} :
            fs = Tree(entry, NoFile, bar, metrics, ZetaBareEscape, executor)
    /\ \E scope \in {"staged", "all"} : argv = [pkg |-> "", scope |-> scope]
    /\ IF argv.scope = "all"
       THEN gitOut = [ok |-> TRUE, files |-> <<>>]
       ELSE gitOut \in GitAnswers(ChangedPool)

SpecReport == InitReport /\ [][Next]_vars


(***************************************************************************)
SetOf(seq) == {seq[k] : k \in 1..Len(seq)}

Count(seq, Test(_)) == Cardinality({k \in 1..Len(seq) : Test(seq[k])})

\* C1: absent a fatal error, a run of main ends with a non-zero exit status
\* exactly when the collected violation list is non-empty, and with status 0
\* otherwise, whatever the scope and the target files.
C1_ExitStatusIffViolations ==
    pc = "done" =>
        /\ (status # 0) <=> (violations # <<>>)
        /\ status \in {0, 1}
        /\ (stdout.banner = "Docstring contract: OK") <=> (violations = <<>>)

C1_Witness ==
    /\ pc = "done"
    /\ argv.scope = "range"
    /\ status = 1
    /\ Len(violations) >= 2

\* C2: the violations of the final report are in ascending order of
\* (file path, line number), whatever the order the targets were enumerated in
\* and whatever the order of the names of __all__.
C2_ReportSorted ==
    pc = "done" =>
        \A a, b \in 1..Len(stdout.lines) :
            a < b =>
                \/ Rank(stdout.lines[a].path) < Rank(stdout.lines[b].path)
                \/ /\ stdout.lines[a].path = stdout.lines[b].path
                   /\ stdout.lines[a].lineno <= stdout.lines[b].lineno

\* C7: the violation of an undocumented definition is suppressed exactly when
\* its definition line holds a recognized escape token, matched without regard
\* to case, with non-whitespace text after that token; also on a line that
\* holds several tokens.
Occurrences(line, tok) ==
    {k \in 0..(Len(line) - Len(tok)) : SubSeq(lower(line), k + 1, k + Len(tok)) = lower(tok)}

ReasonAfter(line, tok) ==
    \E k \in Occurrences(line, tok) :
        \E j \in (k + Len(tok) + 1)..Len(line) : line[j] \notin Whitespace

C7_SuppressedIffTokenWithReason ==
    (pc = "idle" /\ scanned) =>
        (suppressed <=> \E t \in 1..Len(ESCAPE_TOKENS) :
                            ReasonAfter(Text(def_line), ESCAPE_TOKENS[t]))

(***************************************************************************)
(* The entry file as written, read off its statements.                     *)
(***************************************************************************)
EntryBody == fs[InitPy].body

Least(S) == CHOOSE a \in S : \A b \in S : a <= b

\* the statements `__all__ = ...`
AllAssigns ==
    {k \in 1..Len(EntryBody) :
        /\ EntryBody[k].type = "Assign"
        /\ \E j \in 1..Len(EntryBody[k].targets) : EntryBody[k].targets[j] = "__all__"}

\* __all__ is declared, as a literal list or tuple of strings
LiteralAll ==
    /\ AllAssigns # {}
    /\ LET value == EntryBody[Least(AllAssigns)].value
       IN /\ value.type \in {"List", "Tuple"}
          /\ \A j \in 1..Len(value.elts) : value.elts[j].type = "Constant" /\ value.elts[j].isStr

\* the names of the literal __all__
DeclaredNames ==
    LET value == EntryBody[Least(AllAssigns)].value
    IN [j \in 1..Len(value.elts) |-> value.elts[j].value]

\* the aliases `from .module import original [as local]` that bind `local`
Binders(local) ==
    {b \in UNION {{[module |-> EntryBody[k].module, original |-> EntryBody[k].names[j].name,
                    asname |-> EntryBody[k].names[j].asname] : j \in 1..Len(EntryBody[k].names)}
                  : k \in {i \in 1..Len(EntryBody) :
                              EntryBody[i].type = "ImportFrom" /\ EntryBody[i].level = 1}} :
        (IF b.asname # <<>> THEN b.asname ELSE b.original) = local}

\* <pkg>/module.py
ModulePy(module) ==
    P(<<"src", "diffusion_core">> \o SubSeq(module, 1, Len(module) - 1), module[Len(module)], ".py")

\* the top-level definitions called `name` in the file at path, by statement index
TopDefs(path, name) ==
    {k \in 1..Len(fs[path].body) :
        fs[path].body[k].type \in DefTypes /\ fs[path].body[k].name = name}

FirstDef(path, name) == fs[path].body[Least(TopDefs(path, name))]

\* `local` is bound by one import, whose module is a parsable file <pkg>/module.py
\* with a top-level definition of the original name
HasOrigin(local) ==
    /\ Cardinality(Binders(local)) = 1
    /\ LET b == CHOOSE x \in Binders(local) : TRUE
       IN /\ b.module # <<>>
          /\ Exists(fs, ModulePy(b.module))
          /\ fs[ModulePy(b.module)].syntaxOK
          /\ TopDefs(ModulePy(b.module), b.original) # {}

OriginFile(local) == ModulePy((CHOOSE x \in Binders(local) : TRUE).module)
OriginDef(local) ==
    FirstDef(OriginFile(local), (CHOOSE x \in Binders(local) : TRUE).original)

\* the run checked the entry file only, to its end
EntryOnlyDone == pc = "done" /\ targets = <<InitPy>>

\* C3 (as claimed): an entry file whose __all__ is a literal list of strings and
\* whose every exported name resolves to an origin top-level definition that has
\* a docstring yields zero violations.
C3_DocumentedExportsNoViolation ==
    (/\ EntryOnlyDone
     /\ LiteralAll
     /\ \A k \in 1..Len(DeclaredNames) :
            /\ HasOrigin(DeclaredNames[k])
            /\ get_docstring(OriginDef(DeclaredNames[k])).some)
    => violations = <<>>

\* C3 (amended): ... and whose own header docstring is present and non-empty,
\* whose exported names are all public, and whose every exported name resolves to
\* an origin definition with a non-empty docstring, yields zero violations.
C3_DocumentedPublicExportsNoViolation ==
    (/\ EntryOnlyDone
     /\ LiteralAll
     /\ EntryBody[1].type = "Expr" /\ cleandoc(EntryBody[1].value.value) # <<>>
     /\ \A k \in 1..Len(DeclaredNames) :
            /\ DeclaredNames[k][1] # "_"
            /\ HasOrigin(DeclaredNames[k])
            /\ Truthy(get_docstring(OriginDef(DeclaredNames[k]))))
    => (violations = <<>> /\ status = 0)

C3_Witness ==
    /\ EntryOnlyDone
    /\ LiteralAll
    /\ Len(DeclaredNames) >= 2
    /\ EntryBody[1].type = "Expr"
    /\ \A k \in 1..Len(DeclaredNames) :
            /\ DeclaredNames[k][1] # "_"
            /\ HasOrigin(DeclaredNames[k])
            /\ Truthy(get_docstring(OriginDef(DeclaredNames[k])))
    /\ \E k \in 1..Len(DeclaredNames) : DeclaredNames[k] = Local
    /\ violations = <<>>

\* the violations recorded for the exported name `name`
ViolationsOf(name) == {k \in 1..Len(violations) : violations[k].name = name}

\* an undocumented definition without a valid escape on its definition line
Unexcused(path, node) ==
    /\ ~Truthy(get_docstring(node))
    /\ ~has_escape_with_reason(Text(fs[path].lines[node.lineno]))

\* `local` is exported, public, and bound once, by `from .m import original as
\* local` with original # local, to a parsable file <pkg>/m.py
Renamed(local) ==
    /\ LiteralAll
    /\ \E k \in 1..Len(DeclaredNames) : DeclaredNames[k] = local
    /\ local[1] # "_"
    /\ Cardinality(Binders(local)) = 1
    /\ LET b == CHOOSE x \in Binders(local) : TRUE
       IN /\ b.asname = local
          /\ b.original # local
          /\ b.module # <<>>
          /\ Exists(fs, ModulePy(b.module))
          /\ fs[ModulePy(b.module)].syntaxOK

\* C4: when the entry file imports with renaming (from .m import Orig as Local)
\* and exports Local, the docstring lookup is made on the top-level definition
\* named Orig of the origin file; a definition named Local there is never
\* consulted: the outcome depends on Orig's documentation state only.
C4_RenamedExportChecksOriginal ==
    EntryOnlyDone =>
        \A local \in ExportNames :
            Renamed(local) =>
                LET b == CHOOSE x \in Binders(local) : TRUE
                    file == ModulePy(b.module)
                IN IF TopDefs(file, b.original) = {}
                   THEN \A k \in ViolationsOf(local) :
                            /\ violations[k].kind = "maps to a symbol not found"
                            /\ violations[k].arg = b.original
                            /\ violations[k].path = file
                   ELSE /\ \A k \in ViolationsOf(local) :
                                /\ violations[k].kind =
                                       "Exported public symbol is missing a docstring"
                                /\ violations[k].path = file
                                /\ violations[k].lineno = FirstDef(file, b.original).lineno
                        /\ (ViolationsOf(local) # {})
                               <=> Unexcused(file, FirstDef(file, b.original))

\* Local is exported under renaming, the origin file defines both Orig and Local,
\* documented differently, and the violation is Orig's
C4_Witness ==
    /\ EntryOnlyDone
    /\ Renamed(Local)
    /\ TopDefs(BarPy, Orig) # {}
    /\ TopDefs(BarPy, Local) # {}
    /\ Unexcused(BarPy, FirstDef(BarPy, Orig))
    /\ ~Unexcused(BarPy, FirstDef(BarPy, Local))
    /\ ViolationsOf(Local) # {}

\* the calls made for the exported name `name`
CallsFor(name) == {k \in 1..Len(trace) : trace[k].name = name}

\* C5: every name of __all__ that begins with "_" yields a violation at the entry
\* file, whether or not the name is imported, resolvable, documented or escaped,
\* and no import lookup, module resolution or origin-file parse is made for it.
C5_PrivateExportAlwaysViolation ==
    /\ \A name \in ExportNames : name[1] = "_" => CallsFor(name) = {}
    /\ (EntryOnlyDone /\ LiteralAll) =>
          \A name \in SetOf(DeclaredNames) :
              name[1] = "_" =>
                  /\ Cardinality(ViolationsOf(name))
                        = Cardinality({k \in 1..Len(DeclaredNames) : DeclaredNames[k] = name})
                  /\ \A k \in ViolationsOf(name) :
                        /\ violations[k].kind = "__all__ contains private name"
                        /\ violations[k].path = InitPy
                        /\ violations[k].lineno = 1

\* _Hidden is exported, imported from bar.py and defined there, after a public
\* name that was looked up
C5_Witness ==
    /\ EntryOnlyDone
    /\ LiteralAll
    /\ DeclaredNames = <<Foo, Hidden>>
    /\ HasOrigin(Hidden)
    /\ HasOrigin(Foo)
    /\ ViolationsOf(Hidden) # {}
    /\ CallsFor(Foo) # {}

\* C6 (as claimed): checking an entry file without an __all__ declaration
\* produces exactly one violation for that file and no per-export violation.
C6_MissingAllOneViolation ==
    (EntryOnlyDone /\ AllAssigns = {}) =>
        /\ Len(violations) = 1
        /\ \A k \in 1..Len(violations) : violations[k].name = <<>>

\* C6 (amended): ... produces exactly one "__all__ is missing" violation, at line
\* 1 of the entry file, no per-export violation, and besides it only the
\* violation of a missing header docstring, when the entry file has none.
C6_MissingAllOneViolationPlusHeader ==
    (EntryOnlyDone /\ AllAssigns = {}) =>
        /\ Count(violations, LAMBDA v : v.kind = "__all__ is missing") = 1
        /\ \A k \in 1..Len(violations) :
              /\ violations[k].name = <<>>
              /\ violations[k].path = InitPy
              /\ violations[k].lineno = 1
              /\ violations[k].kind \in {"__all__ is missing",
                                         "Missing module docstring in package __init__.py"}
        /\ Len(violations) =
              IF EntryBody # <<>> /\ EntryBody[1].type = "Expr"
                 /\ cleandoc(EntryBody[1].value.value) # <<>>
              THEN 1 ELSE 2
        /\ CallsFor(Foo) = {} /\ CallsFor(Local) = {}

\* no __all__, a header docstring, and imports that a per-export check would follow
C6_Witness ==
    /\ EntryOnlyDone
    /\ AllAssigns = {}
    /\ EntryBody # <<>> /\ EntryBody[1].type = "Expr"
    /\ Binders(Foo) # {}
    /\ Len(violations) = 1

(***************************************************************************)
(* The tiers as the design states them, and the check of one file.         *)
(***************************************************************************)
IsEntryFile(q) == q = P(pkgDir, "__init__", ".py")
IsApiFile(q) == IsPrefix(pkgDir \o <<"api">>, q.dir)
IsCoreFile(q) == q \in core_paths(pkgDir)

\* the check of file q alone, under its tier: entry, then API, then core
PerFile(q) ==
    IF IsEntryFile(q) THEN check_init_exports(fs, q, pkgDir)
    ELSE IF IsApiFile(q) THEN check_api_file(fs, q)
    ELSE IF IsCoreFile(q) THEN check_core_module(fs, q)
    ELSE Returned(<<>>, <<>>)

\* the entry file, the python files of the API directory, the core files there are
Qualifying ==
    {q \in DOMAIN fs :
        fs[q].exists /\ q.suffix = ".py" /\ (IsEntryFile(q) \/ IsApiFile(q) \/ IsCoreFile(q))}

\* C8: the set of violations of an --all run is the union of the sets of
\* violations of the checks of each qualifying file (the entry file, each file of
\* the API directory, each existing core file) taken alone.
C8_AllIsUnionOfFiles ==
    (pc = "done" /\ argv.scope = "all") =>
        SetOf(violations) = UNION {SetOf(PerFile(q).v) : q \in Qualifying}

\* an --all run over the entry file, API files and a core file, each with
\* violations of its own
C8_Witness ==
    /\ pc = "done"
    /\ argv.scope = "all"
    /\ Len(targets) >= 4
    /\ \A j \in 1..Len(targets) : PerFile(targets[j]).v # <<>>
    /\ Cardinality({violations[k].path : k \in 1..Len(violations)}) >= 4

CheckOps == {"check_init_exports", "check_api_file", "check_core_module"}

\* the calls of a check function on path t
ChecksOf(t) == {k \in 1..Len(trace) : trace[k].op \in CheckOps /\ trace[k].path = t}

\* the check function of t's tier
ExpectedCheck(t) ==
    IF IsEntryFile(t) THEN "check_init_exports"
    ELSE IF IsApiFile(t) THEN "check_api_file"
    ELSE IF IsCoreFile(t) THEN "check_core_module"
    ELSE "none"

\* the targets the loop has taken up
Handled ==
    IF pc = "fatal" THEN {j \in 1..Len(targets) : j <= ti}
    ELSE {j \in 1..Len(targets) : j < ti}

RECURSIVE ViolationsUpTo(_)
ViolationsUpTo(j) ==
    IF j = 0 THEN 0 ELSE ViolationsUpTo(j - 1) + Len(PerFile(targets[j]).v)

\* C9: every target is checked under exactly one tier, chosen by its path with
\* precedence entry > API > core: exactly one of check_init_exports,
\* check_api_file, check_core_module runs for a target of some tier, and a target
\* of no tier is not checked and contributes no violation.
C9_OneTierPerTarget ==
    pc \in {"loop", "done", "fatal"} =>
        /\ \A j \in Handled :
              IF ExpectedCheck(targets[j]) = "none"
              THEN ChecksOf(targets[j]) = {}
              ELSE /\ Cardinality(ChecksOf(targets[j])) = 1
                   /\ \A k \in ChecksOf(targets[j]) : trace[k].op = ExpectedCheck(targets[j])
        /\ \A k \in 1..Len(trace) :
              trace[k].op \in CheckOps => \E j \in Handled : targets[j] = trace[k].path
        /\ pc # "fatal" => Len(violations) = ViolationsUpTo(ti - 1)

\* a run that took up an entry file, an API file, a core file and a file of no
\* tier that has no header docstring
C9_Witness ==
    /\ pc = "done"
    /\ argv.scope = "staged"
    /\ Len(targets) >= 2
    /\ \E j \in 1..Len(targets) : targets[j] = BarPy
    /\ \E j \in 1..Len(targets) : targets[j] = ApiZetaPy /\ PerFile(ApiZetaPy).v # <<>>
    /\ ChecksOf(BarPy) = {}

\* the files parse_py was called on
Parsed == {trace[k].path : k \in {i \in 1..Len(trace) : trace[i].op = "parse_py"}}

\* C10: a fatal error (a syntax error in a parsed file, a non-literal __all__,
\* an unresolvable package directory, a failure of git) aborts the run at once
\* with a non-zero status and a single diagnostic: no later target is analysed
\* and no violation collected before it is reported; a run never puts out both a
\* fatal diagnostic and a violation list.
C10_FatalAbortsWithoutReport ==
    /\ pc = "fatal" =>
          /\ status = 1
          /\ stderr # NoDiag
          /\ stdout = NoStdout
          /\ ~ENABLED Next
          /\ \A k \in 1..Len(trace) :
                trace[k].op \in CheckOps => \E j \in 1..Len(targets) :
                                                j <= ti /\ targets[j] = trace[k].path
    /\ pc = "done" =>
          /\ stderr = NoDiag
          /\ stdout # NoStdout
          /\ \A q \in Parsed : fs[q].exists /\ fs[q].syntaxOK
          /\ (InitPy \in Parsed /\ pkgDir = <<"src", "diffusion_core">>)
                => (AllAssigns = {} \/ LiteralAll)
    /\ pc \in {"start", "scope", "loop"} => (stderr = NoDiag /\ stdout = NoStdout /\ status = -1)
    /\ (pc = "scope" /\ argv.pkg = "") =>
          Cardinality({q \in DOMAIN fs : fs[q].exists /\ Len(q.dir) = 2 /\ q.dir[1] = "src"
                                         /\ q.stem = "__init__" /\ q.suffix = ".py"}) = 1
    /\ (pc = "loop" /\ argv.scope # "all") => gitOut.ok

\* a syntax error met after violations were collected, with a target left
C10_Witness ==
    /\ pc = "fatal"
    /\ stderr.kind = "SyntaxError"
    /\ violations # <<>>
    /\ ti < Len(targets)

(***************************************************************************)
(* The statements that assign __all__, whatever their form.                *)
(***************************************************************************)
AssignsAll(node) ==
    \/ node.type = "Assign" /\ \E j \in 1..Len(node.targets) : node.targets[j] = "__all__"
    \/ node.type \in {"AnnAssign", "AugAssign"} /\ node.target = "__all__"

AllStatements == {k \in 1..Len(EntryBody) : AssignsAll(EntryBody[k])}

LiteralOfStrings(value) ==
    /\ value.type \in {"List", "Tuple"}
    /\ \A j \in 1..Len(value.elts) : value.elts[j].type = "Constant" /\ value.elts[j].isStr

\* the run took up the entry file, and only it
EntryTaken == pc \in {"done", "fatal"} /\ targets = <<InitPy>> /\ fs[InitPy].syntaxOK

\* C11: an entry file whose first top-level statement assigning __all__, of any
\* form (plain, chained, annotated, augmented), gives it anything but a literal
\* list or tuple of string constants aborts the run with the fatal
\* configuration error: nothing is reported as a violation.
C11_NonLiteralAllIsFatal ==
    (/\ EntryTaken
     /\ AllStatements # {}
     /\ ~LiteralOfStrings(EntryBody[Least(AllStatements)].value))
    => /\ pc = "fatal"
       /\ stderr.kind = "__all__ must be a literal"
       /\ stdout = NoStdout

\* C12: an exported public name that no single-level relative from-import of the
\* entry file binds yields the "not imported via a simple from-import"
\* violation, once per occurrence in __all__, and no other.
C12_OnlySingleLevelImportsBind ==
    (EntryOnlyDone /\ LiteralAll) =>
        \A name \in SetOf(DeclaredNames) :
            (name[1] # "_" /\ Binders(name) = {}) =>
                /\ Cardinality(ViolationsOf(name))
                      = Cardinality({k \in 1..Len(DeclaredNames) : DeclaredNames[k] = name})
                /\ \A k \in ViolationsOf(name) :
                      violations[k].kind = "not imported via a simple from-import"

\* the names of the violations recorded for exported names, in report order
ExportViolationNames ==
    LET per == SelectSeq(violations, LAMBDA v : v.name # <<>>)
    IN [k \in 1..Len(per) |-> per[k].name]

\* the definition line of a node names an escape token followed by a reason
EscapedWithReason(path, node) ==
    \E t \in 1..Len(ESCAPE_TOKENS) :
        ReasonAfter(Text(fs[path].lines[node.lineno]), ESCAPE_TOKENS[t])

\* C13: the check of the entry file records, for each name of __all__ in list
\* order, at most one violation, and none only when the name is public and
\* resolves through its one import binding to an origin definition that is
\* documented or escaped with a reason; besides these only the violation of a
\* missing header docstring is recorded, first, so that the entry file yields at
\* most 1 + Len(__all__) violations.  No name is passed over for another cause: a
\* check that ends otherwise ended on the syntax error of a bound name's origin.
C13_OneOutcomePerExport ==
    /\ (EntryOnlyDone /\ LiteralAll) =>
          /\ Len(violations) <= 1 + Len(DeclaredNames)
          /\ ExportViolationNames
                = SelectSeq(DeclaredNames, LAMBDA n : ViolationsOf(n) # {})
          /\ \A k \in 1..Len(violations) :
                violations[k].name = <<>> =>
                    /\ k = 1
                    /\ violations[k].kind = "Missing module docstring in package __init__.py"
          /\ \A n \in SetOf(DeclaredNames) :
                ViolationsOf(n) = {} =>
                    /\ n[1] # "_"
                    /\ HasOrigin(n)
                    /\ \/ Truthy(get_docstring(OriginDef(n)))
                       \/ EscapedWithReason(OriginFile(n), OriginDef(n))
    /\ (pc = "fatal" /\ targets = <<InitPy>> /\ fs[InitPy].syntaxOK /\ LiteralAll) =>
          /\ stderr.kind = "SyntaxError"
          /\ \E n \in SetOf(DeclaredNames) :
                /\ n[1] # "_"
                /\ \E b \in Binders(n) :
                      b.module # <<>> /\ stderr.path = ModulePy(b.module)
                      /\ ~fs[ModulePy(b.module)].syntaxOK

\* two exported names and no header docstring: one name is undocumented and
\* escaped with a reason, the other yields a violation
C13_Witness ==
    /\ EntryOnlyDone
    /\ LiteralAll
    /\ Len(DeclaredNames) >= 2
    /\ EntryBody[1].type # "Expr"
    /\ Len(violations) = Len(DeclaredNames)
    /\ \E n \in SetOf(DeclaredNames) :
          /\ ViolationsOf(n) = {}
          /\ HasOrigin(n)
          /\ ~Truthy(get_docstring(OriginDef(n)))
    /\ \E n \in SetOf(DeclaredNames) :
          /\ ViolationsOf(n) # {}
          /\ HasOrigin(n)

(***************************************************************************)
(* The API file as written.                                                *)
(***************************************************************************)
DocEscape == SegText("docesc")

ApiBody == fs[ApiMetricsPy].body

\* the run checked api/metrics.py only, to its end
ApiOnlyDone == pc = "done" /\ targets = <<ApiMetricsPy>>

\* api/metrics.py is a header docstring and an undocumented def compute()
UndocumentedCompute ==
    /\ Len(ApiBody) = 2
    /\ ApiBody[1].type = "Expr"
    /\ ApiBody[2].type = "FunctionDef" /\ ApiBody[2].name = compute
    /\ ~get_docstring(ApiBody[2]).some

ComputeLine == Text(fs[ApiMetricsPy].lines[ApiBody[2].lineno])

ComputeViolation ==
    V(ApiMetricsPy, ApiBody[2].lineno, "Public symbol is missing a docstring", compute, <<>>)

\* C14 (as claimed): with `# doc-escape: <reason>` on the definition line the
\* file yields zero violations; with no escape token on it, exactly one
\* violation, at that file and line.
C14_DocEscapeSuppresses ==
    (ApiOnlyDone /\ UndocumentedCompute) =>
        /\ ReasonAfter(ComputeLine, DocEscape) => violations = <<>>
        /\ (/\ Occurrences(ComputeLine, DocEscape) = {}
            /\ \A t \in 1..Len(ESCAPE_TOKENS) : Occurrences(ComputeLine, ESCAPE_TOKENS[t]) = {})
           => violations = <<ComputeViolation>>

\* C14 (amended): with `# noqa: DOC <reason>` on the definition line the file
\* yields zero violations; with none of the escape tokens of ESCAPE_TOKENS on
\* it, `# doc-escape: <reason>` or not, exactly one violation, at that file and
\* line.
C14_NoqaDocSuppresses ==
    (ApiOnlyDone /\ UndocumentedCompute) =>
        /\ ReasonAfter(ComputeLine, Tok1) => violations = <<>>
        /\ (\A t \in 1..Len(ESCAPE_TOKENS) : Occurrences(ComputeLine, ESCAPE_TOKENS[t]) = {})
           => violations = <<ComputeViolation>>

\* def compute():  # noqa: DOC why, undocumented, and nothing reported
C14_Witness ==
    /\ ApiOnlyDone
    /\ UndocumentedCompute
    /\ ReasonAfter(ComputeLine, Tok1)
    /\ Occurrences(ComputeLine, DocEscape) = {}
    /\ violations = <<>>
    /\ status = 0

(***************************************************************************)
(* The precommit guard's checks, as listed, read off the repository.       *)
(***************************************************************************)
GuardChecks ==
    << genv.repo,
       genv.head # "HEAD",
       genv.head \notin {"main", "master"},
       genv.remote.reachable /\ genv.remote.main # 0,
       genv.ref # 0,
       genv.ref # 0 /\ IsAncestor(genv.ref, genv.headCommit) >>

\* the git commands a run makes when check k is the first that fails (7: none fails)
GuardCommands == <<"rev-parse", "fetch", "show-ref", "merge-base">>
CallsUpTo(k) ==
    SubSeq(GuardCommands, 1, CASE k <= 3 -> 1 [] k = 4 -> 2 [] k = 5 -> 3 [] OTHER -> 4)

GuardMessages ==
    <<"not a git repo", "detached HEAD", "refusing commit", "failed to fetch origin/main",
      "origin/main not found after fetch", "not based on latest origin/main", "">>

FirstFailing ==
    IF \A k \in 1..6 : GuardChecks[k] THEN 7
    ELSE Least({k \in 1..6 : ~GuardChecks[k]})

\* C15: the guard returns 0 exactly when the directory is a git repository, HEAD
\* is not detached, the branch is neither main nor master, the fetch of
\* origin/main succeeds, refs/remotes/origin/main exists and origin/main is an
\* ancestor of HEAD; it returns 1 at the first of these checks that fails, in
\* this order, and runs no git command of a later check.
C15_GuardPassesIffAllChecks ==
    gpc = "done" =>
        /\ grc \in {0, 1}
        /\ (grc = 0) <=> (\A k \in 1..6 : GuardChecks[k])
        /\ gcalls = CallsUpTo(FirstFailing)
        /\ gmsg = GuardMessages[FirstFailing]

\* a branch that is not based on the fetched origin/main: every command ran
C15_Witness ==
    /\ gpc = "done"
    /\ grc = 1
    /\ genv.head = "chore/feat"
    /\ genv.ref = genv.remote.main
    /\ ~IsAncestor(genv.ref, genv.headCommit)
    /\ Len(gcalls) = 4

(***************************************************************************)
(* Run directories and run configs                                         *)
(***************************************************************************)
\* the run directory a call of create_run_dir or run_once is aimed at
TargetRunDir ==
    IF lcall.op = "create_run_dir"
    THEN Append(lcall.root, run_dir_name(lcall.name, lcall.id))
    ELSE LET c == load_config(lcall.diskBefore, <<>>, lcall.path)
         IN Append(lcall.root, run_dir_name(c.heap[c.heap[c.ref].run].experiment_name, lcall.id))

\* the call got as far as making the run directory
MakesRunDir ==
    \/ lcall.op = "create_run_dir"
    \/ lcall.op = "run_once" /\ load_config(lcall.diskBefore, <<>>, lcall.path).outcome = "ok"

\* C16: a call of create_run_dir (directly or from run_once) whose run id and
\* sanitized name map to a directory that already exists raises FileExistsError
\* and leaves the file system, the existing directory included, as it was.
C16_NeverReusesRunDir ==
    (MakesRunDir /\ TargetRunDir \in DOMAIN lcall.diskBefore)
        => /\ lcall.outcome = "FileExistsError"
           /\ disk = lcall.diskBefore

\* a second create_run_dir with another name that maps to the directory an earlier
\* call laid out
C16_Witness ==
    /\ lcall.op = "create_run_dir"
    /\ lcall.name = <<"a", " ", "b">>
    /\ TargetRunDir \in DOMAIN lcall.diskBefore
    /\ Append(Append(TargetRunDir, S_logs), S_metrics_jsonl) \in DOMAIN lcall.diskBefore
    /\ lcall.outcome = "FileExistsError"

\* the value written in a YAML text under a key of the top level or of `run`
TopValue(lines, key) == yaml_resolve(lines[LineOf(lines, TopLines(lines), key)].val)
NestedValue(lines, key) == yaml_resolve(lines[LineOf(lines, NestedLines(lines), key)].val)

IsDirAt(path) == path \in DOMAIN disk /\ disk[path].kind = "dir"
IsFileAt(path) == path \in DOMAIN disk /\ disk[path].kind = "file"

\* the config run_once loaded, and the snapshot it left in the run directory
LoadedConfig == model_validate(yaml_safe_load(lcall.diskBefore[lcall.path].content))
Snapshot == disk[Append(lcall.dir, S_config_resolved_yaml)].content

\* C17: after run_once returns, the returned run directory holds meta/,
\* logs/metrics.jsonl, ckpts/last/, artifacts/ and config.resolved.yaml, and the
\* snapshot reads back as the loaded config's seed and experiment_name with
\* run.run_root equal to the run_root argument.
C17_RunOnceLayoutAndSnapshot ==
    (lcall.op = "run_once" /\ lcall.outcome = "ok")
        => /\ IsDirAt(lcall.dir)
           /\ IsDirAt(Append(lcall.dir, S_meta))
           /\ IsFileAt(Append(Append(lcall.dir, S_logs), S_metrics_jsonl))
           /\ IsDirAt(Append(Append(lcall.dir, S_ckpts), S_last))
           /\ IsDirAt(Append(lcall.dir, S_artifacts))
           /\ IsFileAt(Append(lcall.dir, S_config_resolved_yaml))
           /\ HasKey(Snapshot, TopLines(Snapshot), "seed")
           /\ HasKey(Snapshot, NestedLines(Snapshot), "experiment_name")
           /\ HasKey(Snapshot, NestedLines(Snapshot), "run_root")
           /\ TopValue(Snapshot, "seed") = IntValue(LoadedConfig.seed)
           /\ NestedValue(Snapshot, "experiment_name") = StrValue(LoadedConfig.experiment_name)
           /\ NestedValue(Snapshot, "run_root") = StrValue(PathStr(lcall.root))

\* run_once returned for a config whose name is a string of digits and whose
\* run_root differs from the argument
C17_Witness ==
    /\ lcall.op = "run_once"
    /\ lcall.outcome = "ok"
    /\ lcall.path = <<S_quoted_yaml>>
    /\ LoadedConfig.experiment_name = <<"1", "2">>
    /\ LoadedConfig.seed = 12
    /\ LoadedConfig.run_root # PathStr(lcall.root)
    /\ IsFileAt(Append(lcall.dir, S_config_resolved_yaml))

\* the objects a heap held before the last call are as they were
OldObjectsUnchanged == SubSeq(heap, 1, Len(lcall.heapBefore)) = lcall.heapBefore

\* C18: with_run_root(cfg, run_root) returns a new config object whose
\* run.run_root is the given root and whose other fields equal cfg's, and cfg and
\* its run config are left as they were.
C18_WithRunRootReturnsNewConfig ==
    (lcall.op = "with_run_root")
        => /\ lcall.result \notin 1..Len(lcall.heapBefore)
           /\ lcall.result \in AppConfigs(heap)
           /\ heap[lcall.result].run \notin 1..Len(lcall.heapBefore)
           /\ heap[heap[lcall.result].run].run_root = PathStr(lcall.root)
           /\ heap[lcall.result].seed = lcall.heapBefore[lcall.cfg].seed
           /\ heap[heap[lcall.result].run].experiment_name
                  = lcall.heapBefore[lcall.heapBefore[lcall.cfg].run].experiment_name
           /\ OldObjectsUnchanged
           /\ heap[heap[lcall.cfg].run].run_root
                  = lcall.heapBefore[lcall.heapBefore[lcall.cfg].run].run_root

\* the root of a config loaded with run_root "out" was overridden by another root
C18_Witness ==
    /\ lcall.op = "with_run_root"
    /\ heap[heap[lcall.cfg].run].run_root = S_out
    /\ heap[lcall.cfg].seed = 7
    /\ lcall.root = <<S_out, S_runs>>
    /\ heap[heap[lcall.result].run].run_root = S_out \o Slash \o S_runs

(***************************************************************************)
(* The artifact blocker                                                    *)
(***************************************************************************)
\* an existing file, not under a forbidden directory, without a forbidden extension
GoodFile(path) ==
    /\ tree[path] # NoSize
    /\ \A k \in 1..(Len(path) - 1) : path[k] \notin FORBIDDEN_DIR_NAMES
    /\ lower(suffix(path)) \notin FORBIDDEN_EXTS

BlockViolationsOf(path) == {k \in 1..Len(bcall.violations) : bcall.violations[k].path = path}

\* C19: scan_paths(paths, max_bytes) returns no violation for an existing file
\* that is not under a forbidden directory, has no forbidden extension and has
\* size <= max_bytes, and exactly one violation, with that path and a 'file too
\* large' reason, for such a file whose size exceeds max_bytes.
C19_ScanPathsSizeRule ==
    (bcall.op = "scan_paths")
        => /\ bcall.outcome = "ok"
           /\ \A k \in 1..Len(bcall.paths) :
                 LET path == bcall.paths[k]
                 IN (GoodFile(path) /\ \A j \in 1..Len(bcall.paths) : j # k => bcall.paths[j] # path)
                      => IF tree[path] <= bcall.max_bytes
                         THEN BlockViolationsOf(path) = {}
                         ELSE /\ Cardinality(BlockViolationsOf(path)) = 1
                              /\ \A v \in BlockViolationsOf(path) :
                                    bcall.violations[v].reason.text = "file too large"

FirstIsString(body) ==
    /\ body # <<>>
    /\ body[1].type = "Expr"
    /\ body[1].value.type = "Constant"
    /\ body[1].value.isStr

\* a text that is not empty once cleaned as a docstring: it holds a character
\* that is no blank and no line break, or a blank after its first line break
HasText(raw) ==
    \/ \E k \in 1..Len(raw) : raw[k] \notin (Whitespace \cup {"\n"})
    \/ \E j, k \in 1..Len(raw) : j < k /\ raw[j] = "\n" /\ raw[k] \in Whitespace

FirstIsText(body) == FirstIsString(body) /\ HasText(body[1].value.value)

\* the run checked api/metrics.py and executor.py, to its end
DocsDone == pc = "done" /\ targets = <<ApiMetricsPy, ExecutorPy>>

HeaderViolations(path) ==
    {k \in 1..Len(violations) : violations[k].path = path /\ violations[k].name = <<>>}

DefViolations(path, lineno) ==
    {k \in 1..Len(violations) :
        /\ violations[k].path = path
        /\ violations[k].lineno = lineno
        /\ violations[k].kind = "Public symbol is missing a docstring"}

\* the top-level definitions of a file whose missing docstring would be reported
ReportableDefs(path) ==
    {k \in 1..Len(fs[path].body) :
        /\ fs[path].body[k].type \in DefTypes
        /\ fs[path].body[k].name[1] # "_"
        /\ ~EscapedWithReason(path, fs[path].body[k])}

\* C21 (as claimed): a file's header-doc check passes iff its first statement
\* is a standalone string literal, and a definition counts as documented iff
\* its first body statement is one, whatever the literal's text, empty or
\* blank included.
C21_DocIffStringLiteral ==
    DocsDone =>
        /\ \A path \in {ApiMetricsPy, ExecutorPy} :
              (HeaderViolations(path) = {}) <=> FirstIsString(fs[path].body)
        /\ \A k \in ReportableDefs(ApiMetricsPy) :
              (DefViolations(ApiMetricsPy, fs[ApiMetricsPy].body[k].lineno) = {})
                  <=> FirstIsString(fs[ApiMetricsPy].body[k].body)

\* C21 (amended): a file's header-doc check passes iff its first statement is
\* a standalone string literal whose text is not empty once cleaned as a
\* docstring, and a definition counts as documented iff its first body
\* statement is such a literal.
C21_DocIffLiteralWithText ==
    DocsDone =>
        /\ \A path \in {ApiMetricsPy, ExecutorPy} :
              (HeaderViolations(path) = {}) <=> FirstIsText(fs[path].body)
        /\ \A k \in ReportableDefs(ApiMetricsPy) :
              (DefViolations(ApiMetricsPy, fs[ApiMetricsPy].body[k].lineno) = {})
                  <=> FirstIsText(fs[ApiMetricsPy].body[k].body)

\* a header of blanks only is reported as missing, and a docstring of a line
\* break and a blank counts as one
C21_Witness ==
    /\ DocsDone
    /\ FirstIsString(fs[ApiMetricsPy].body)
    /\ fs[ApiMetricsPy].body[1].value.value = DocBlank
    /\ HeaderViolations(ApiMetricsPy) # {}
    /\ \E k \in ReportableDefs(ApiMetricsPy) :
          /\ FirstIsString(fs[ApiMetricsPy].body[k].body)
          /\ fs[ApiMetricsPy].body[k].body[1].value.value = <<"\n", " ">>
          /\ DefViolations(ApiMetricsPy, fs[ApiMetricsPy].body[k].lineno) = {}

\* the violations recorded at a file
ViolationsAt(path) == {k \in 1..Len(violations) : violations[k].path = path}

\* the top-level definitions check_api_file has to report: public, without a
\* docstring, without a valid escape on the definition line
OwedDefs(path) == {k \in ReportableDefs(path) : ~FirstIsText(fs[path].body[k].body)}

\* the definitions nested in a statement of a file
DefNamesIn(body) == {body[j].name : j \in {i \in 1..Len(body) : body[i].type \in DefTypes}}

NestedNames(path) ==
    UNION { DefNamesIn(fs[path].body[k].body) :
              k \in {i \in 1..Len(fs[path].body) : fs[path].body[i].type \in {"ClassDef", "If"}} }

\* C22: check_api_file yields one violation at line 1 when the header doc is
\* missing, plus exactly one violation at (file, definition line) for each
\* top-level function, async function or class with a public name, no
\* docstring and no valid escape on its definition line, and nothing else;
\* private-named and nested definitions never produce a violation.
C22_ApiFileViolations ==
    DocsDone =>
        /\ Cardinality(HeaderViolations(ApiMetricsPy))
              = IF FirstIsText(fs[ApiMetricsPy].body) THEN 0 ELSE 1
        /\ \A k \in HeaderViolations(ApiMetricsPy) : violations[k].lineno = 1
        /\ \A k \in OwedDefs(ApiMetricsPy) :
              /\ Cardinality(DefViolations(ApiMetricsPy, fs[ApiMetricsPy].body[k].lineno)) = 1
              /\ \A v \in DefViolations(ApiMetricsPy, fs[ApiMetricsPy].body[k].lineno) :
                    violations[v].name = fs[ApiMetricsPy].body[k].name
        /\ Cardinality(ViolationsAt(ApiMetricsPy))
              = Cardinality(HeaderViolations(ApiMetricsPy))
                  + Cardinality(OwedDefs(ApiMetricsPy))
        /\ \A v \in ViolationsAt(ApiMetricsPy) :
              /\ violations[v].name # Hidden
              /\ violations[v].name \notin NestedNames(ApiMetricsPy)

\* no header, an undocumented compute() and a documented class with an
\* undocumented method: the header and compute are reported, the method is not
C22_Witness ==
    /\ DocsDone
    /\ fs[ApiMetricsPy].body[1].type = "FunctionDef"
    /\ fs[ApiMetricsPy].body[1].name = compute
    /\ Inner \in NestedNames(ApiMetricsPy)
    /\ OwedDefs(ApiMetricsPy) = {1}
    /\ Cardinality(ViolationsAt(ApiMetricsPy)) = 2
    /\ violations[1].lineno = 1 /\ violations[2].lineno = 1 /\ violations[2].name = compute

\* C23: a core-tier file yields at most one violation, present exactly when
\* its header doc is missing; its definitions, documented or not, never add one.
C23_CoreHeaderOnly ==
    DocsDone =>
        /\ Cardinality(ViolationsAt(ExecutorPy)) = IF FirstIsText(fs[ExecutorPy].body) THEN 0 ELSE 1
        /\ \A v \in ViolationsAt(ExecutorPy) :
              /\ violations[v].lineno = 1
              /\ violations[v].kind = "Missing module header docstring (core module)"

\* a core file with a header and two undocumented public definitions, one of
\* them unescaped, and nothing reported at it
C23_Witness ==
    /\ DocsDone
    /\ FirstIsText(fs[ExecutorPy].body)
    /\ Len(fs[ExecutorPy].body) = 3
    /\ OwedDefs(ExecutorPy) = {3}
    /\ ViolationsAt(ExecutorPy) = {}

(***************************************************************************)
(* C24..C28: the origin of an exported name.                               *)
(***************************************************************************)
\* the run checked the entry file only, to its end, and __all__ is a literal
OriginDone == EntryOnlyDone /\ LiteralAll

\* <pkg>/module/__init__.py
ModulePackage(module) == P(<<"src", "diffusion_core">> \o module, "__init__", ".py")

\* the files parsed for the exported name `name`, in the order of the calls
ParsedFor(name) ==
    SelectSeq(trace, LAMBDA e : e.op = "parse_py" /\ e.name = name)

\* the exported names the claim is about: public and bound by one import
BoundOnce == {n \in SetOf(DeclaredNames) : n[1] # "_" /\ Cardinality(Binders(n)) = 1}

BinderOf(n) == CHOOSE b \in Binders(n) : TRUE

\* C24: for an import binding with dotted module path p, the origin file is
\* <pkg>/p.py when that file exists, otherwise <pkg>/p/__init__.py when that
\* exists; when neither exists the exported name yields one 'Cannot resolve
\* module' violation at the entry file (line 1) and no origin file is parsed
\* for it.
C24_OriginFileOfBinding ==
    OriginDone =>
        \A n \in BoundOnce :
            LET p == BinderOf(n).module
            IN IF p # <<>> /\ Exists(fs, ModulePy(p))
               THEN /\ Len(ParsedFor(n)) = 1 /\ ParsedFor(n)[1].path = ModulePy(p)
                    /\ \A k \in ViolationsOf(n) : violations[k].path = ModulePy(p)
               ELSE IF Exists(fs, ModulePackage(p))
               THEN /\ Len(ParsedFor(n)) = 1 /\ ParsedFor(n)[1].path = ModulePackage(p)
                    /\ \A k \in ViolationsOf(n) : violations[k].path = ModulePackage(p)
               ELSE /\ ParsedFor(n) = <<>>
                    /\ Cardinality(ViolationsOf(n)) = 1
                    /\ \A k \in ViolationsOf(n) :
                            /\ violations[k].kind = "Cannot resolve module"
                            /\ violations[k].path = InitPy
                            /\ violations[k].lineno = 1
                            /\ violations[k].arg = p

\* bar.py and bar/__init__.py both exist, Foo is imported from .bar and is
\* undocumented in the package: bar.py alone is parsed and the violation is
\* bar.py's
C24_Witness ==
    /\ OriginDone
    /\ Exists(fs, BarPy) /\ Exists(fs, BarInitPy)
    /\ Foo \in BoundOnce /\ BinderOf(Foo).module = <<"bar">>
    /\ TopDefs(BarInitPy, Foo) # {} /\ Unexcused(BarInitPy, FirstDef(BarInitPy, Foo))
    /\ ParsedFor(Foo) = <<Ev("parse_py", BarPy, Foo)>>
    /\ \E k \in ViolationsOf(Foo) : violations[k].path = BarPy

\* the origin file of a name bound once: <pkg>/p.py, else <pkg>/p/__init__.py
OriginPath(n) ==
    LET p == BinderOf(n).module
    IN IF p # <<>> /\ Exists(fs, ModulePy(p)) THEN ModulePy(p) ELSE ModulePackage(p)

\* the exported names that resolve to a top-level definition of an origin file
\* other than the entry file
Resolved ==
    {n \in BoundOnce :
        /\ Exists(fs, OriginPath(n)) /\ OriginPath(n) # InitPy
        /\ TopDefs(OriginPath(n), BinderOf(n).original) # {}}

ResolvedDef(n) == FirstDef(OriginPath(n), BinderOf(n).original)

\* C25: when an exported name resolves to an origin definition that has no
\* docstring and no valid escape on its definition line, one violation is
\* recorded for it, at the origin file and the origin definition's line, and none
\* at the entry file; when the escape is valid no violation is recorded.
C25_ViolationAtOriginDefinition ==
    OriginDone =>
        \A n \in Resolved :
            ~Truthy(get_docstring(ResolvedDef(n))) =>
                IF EscapedWithReason(OriginPath(n), ResolvedDef(n))
                THEN ViolationsOf(n) = {}
                ELSE /\ Cardinality(ViolationsOf(n)) = 1
                     /\ \A k \in ViolationsOf(n) :
                            /\ violations[k].path = OriginPath(n)
                            /\ violations[k].lineno = ResolvedDef(n).lineno
                            /\ violations[k].kind
                                   = "Exported public symbol is missing a docstring"

\* Foo and Orig are exported from bar.py, both undocumented: Foo's definition
\* line carries an escape without a reason and yields a violation at that line,
\* Orig's carries an escape with a reason and yields none
C25_Witness ==
    /\ OriginDone
    /\ {Foo, Orig} \subseteq Resolved
    /\ OriginPath(Foo) = BarPy /\ OriginPath(Orig) = BarPy
    /\ ~Truthy(get_docstring(ResolvedDef(Foo))) /\ ~Truthy(get_docstring(ResolvedDef(Orig)))
    /\ ~EscapedWithReason(BarPy, ResolvedDef(Foo))
    /\ EscapedWithReason(BarPy, ResolvedDef(Orig))
    /\ \E k \in ViolationsOf(Foo) :
            violations[k].path = BarPy /\ violations[k].lineno = ResolvedDef(Foo).lineno
    /\ ViolationsOf(Orig) = {}

\* the exported names whose origin file exists
WithOriginFile == {n \in BoundOnce : Exists(fs, OriginPath(n))}

\* C26: the origin lookup searches only the origin file's top-level function,
\* async-function and class definitions, in source order, and returns the first
\* whose name equals the original name exactly: the outcome for the exported
\* name is that definition's (its line, its documentation state), a nested
\* definition of that name is never returned, and when no top-level definition
\* matches the name yields one 'symbol not found' violation.
C26_FirstTopLevelDefinition ==
    OriginDone =>
        \A n \in WithOriginFile :
            LET file == OriginPath(n)
                original == BinderOf(n).original
            IN IF TopDefs(file, original) = {}
               THEN /\ Cardinality(ViolationsOf(n)) = 1
                    /\ \A k \in ViolationsOf(n) :
                            /\ violations[k].kind = "maps to a symbol not found"
                            /\ violations[k].arg = original
                            /\ violations[k].path = file
               ELSE /\ \A k \in ViolationsOf(n) :
                            /\ violations[k].kind
                                   = "Exported public symbol is missing a docstring"
                            /\ violations[k].path = file
                            /\ violations[k].lineno = FirstDef(file, original).lineno
                    /\ (ViolationsOf(n) # {}) <=> Unexcused(file, FirstDef(file, original))

\* bar.py defines Foo inside an if statement, then at the top level without a
\* docstring, then at the top level with one: the violation is at the line of
\* the first top-level definition
C26_Witness ==
    /\ OriginDone
    /\ Foo \in WithOriginFile /\ OriginPath(Foo) = BarPy /\ BinderOf(Foo).original = Foo
    /\ Foo \in NestedNames(BarPy)
    /\ Cardinality(TopDefs(BarPy, Foo)) = 2
    /\ \E k \in TopDefs(BarPy, Foo) : Truthy(get_docstring(fs[BarPy].body[k]))
    /\ \E k \in ViolationsOf(Foo) :
            violations[k].lineno = FirstDef(BarPy, Foo).lineno

\* the places <<statement, alias>> of the entry file where a relative
\* from-import binds `local`
BindingSites(local) ==
    UNION { {<<k, j>> : j \in {i \in 1..Len(EntryBody[k].names) :
                                 (IF EntryBody[k].names[i].asname # <<>>
                                  THEN EntryBody[k].names[i].asname
                                  ELSE EntryBody[k].names[i].name) = local}}
            : k \in {i \in 1..Len(EntryBody) :
                        EntryBody[i].type = "ImportFrom" /\ EntryBody[i].level >= 1} }

\* the last of them in source order
LastSite(local) ==
    CHOOSE a \in BindingSites(local) :
        \A b \in BindingSites(local) : b[1] < a[1] \/ (b[1] = a[1] /\ b[2] <= a[2])

\* the outcome of the export `n` is the one of the binding `from .module import
\* original`: the violations of n and the file parsed for n are the binding's
OutcomeOf(n, module, original) ==
    LET file == IF module # <<>> /\ Exists(fs, ModulePy(module)) THEN ModulePy(module)
                ELSE ModulePackage(module)
    IN IF ~Exists(fs, file)
       THEN /\ ParsedFor(n) = <<>>
            /\ Cardinality(ViolationsOf(n)) = 1
            /\ \A k \in ViolationsOf(n) :
                    violations[k].kind = "Cannot resolve module" /\ violations[k].arg = module
       ELSE /\ ParsedFor(n) = <<Ev("parse_py", file, n)>>
            /\ IF TopDefs(file, original) = {}
               THEN /\ Cardinality(ViolationsOf(n)) = 1
                    /\ \A k \in ViolationsOf(n) :
                            /\ violations[k].kind = "maps to a symbol not found"
                            /\ violations[k].arg = original
                            /\ violations[k].path = file
               ELSE /\ \A k \in ViolationsOf(n) :
                            /\ violations[k].kind
                                   = "Exported public symbol is missing a docstring"
                            /\ violations[k].path = file
                            /\ violations[k].lineno = FirstDef(file, original).lineno
                    /\ (ViolationsOf(n) # {}) <=> Unexcused(file, FirstDef(file, original))

\* C28: the entry file's import map holds at most one binding per local name:
\* when several relative from-imports bind the same local name, the export is
\* resolved through the binding of the last such import in source order, and
\* the earlier bindings are discarded (their modules are neither resolved nor
\* parsed for the name).
C28_LastBindingWins ==
    OriginDone =>
        \A n \in SetOf(DeclaredNames) :
            (n[1] # "_" /\ Cardinality(BindingSites(n)) >= 2) =>
                LET node == EntryBody[LastSite(n)[1]]
                IN OutcomeOf(n, node.module, node.names[LastSite(n)[2]].name)

\* Foo is bound by `from .bar import Foo`, bar.py documenting Foo, and then by
\* `from .nomod import Foo`: the export cannot be resolved
C28_Witness ==
    /\ OriginDone
    /\ Foo \in SetOf(DeclaredNames)
    /\ Cardinality(BindingSites(Foo)) = 2
    /\ \E a \in BindingSites(Foo) :
            /\ a # LastSite(Foo)
            /\ EntryBody[a[1]].module = <<"bar">> /\ EntryBody[a[1]].names[a[2]].name = Foo
    /\ Exists(fs, BarPy) /\ TopDefs(BarPy, Foo) # {}
    /\ Truthy(get_docstring(FirstDef(BarPy, Foo)))
    /\ EntryBody[LastSite(Foo)[1]].module = <<"nomod">>
    /\ \E k \in ViolationsOf(Foo) : violations[k].kind = "Cannot resolve module"

(***************************************************************************)
(* C27: violations never stop the analysis.                                *)
(***************************************************************************)
\* the targets that match a tier
TierTargets ==
    {k \in 1..Len(targets) : TierOf(fs, pkgDir, targets[k]) # "none"}

\* the checks main started, in order
ChecksMade ==
    SelectSeq(trace, LAMBDA e : e.op \in {"check_init_exports", "check_api_file",
                                          "check_core_module"})

\* the violations of the targets from the k-th on, each checked on its own
RECURSIVE ViolationsFrom(_)
ViolationsFrom(k) ==
    IF k > Len(targets) THEN <<>>
    ELSE CheckOf(fs, pkgDir, targets[k]).v \o ViolationsFrom(k + 1)

\* the exported names whose import binding was looked up
LookedUp ==
    {trace[k].name : k \in {i \in 1..Len(trace) : trace[i].op = "import_lookup"}}

\* C27: violations never stop analysis: in a run that ends without a fatal
\* error, every target of the scope that matches a tier is checked, once and in
\* target order; when the entry file is checked each name of __all__ is examined
\* (a private name yields its violation, a public one is looked up in the import
\* map) whatever the earlier names yielded; and the one report holds the
\* violations of all files.
C27_ViolationsNeverStopAnalysis ==
    pc = "done" =>
        /\ Len(ChecksMade) = Cardinality(TierTargets)
        /\ \A k \in TierTargets : \E j \in 1..Len(ChecksMade) : ChecksMade[j].path = targets[k]
        /\ \A j, k \in TierTargets :
                j < k => \E a, b \in 1..Len(ChecksMade) :
                            a < b /\ ChecksMade[a].path = targets[j]
                                  /\ ChecksMade[b].path = targets[k]
        /\ (\E k \in 1..Len(targets) : targets[k] = InitPy) =>
                \A n \in SetOf(DeclaredNames) :
                    IF n[1] = "_"
                    THEN \E k \in ViolationsOf(n) :
                            violations[k].kind = "__all__ contains private name"
                    ELSE n \in LookedUp
        /\ violations = ViolationsFrom(1)
        /\ stdout.lines = violations
        /\ (violations # <<>>) => stdout.banner = "Docstring enforcement violations:"

\* three files are checked and each yields violations, the entry file for two
\* exports: the report holds them all
C27_Witness ==
    /\ pc = "done"
    /\ Cardinality(TierTargets) >= 2
    /\ \A k \in TierTargets : CheckOf(fs, pkgDir, targets[k]).v # <<>>
    /\ \E k \in 1..Len(targets) : targets[k] = InitPy
    /\ Len(DeclaredNames) >= 2
    /\ \A n \in SetOf(DeclaredNames) : ViolationsOf(n) # {}
    /\ \E k \in 1..Len(targets) : targets[k] = ApiMetricsPy
    /\ \E k \in 1..Len(stdout.lines) : stdout.lines[k].path = ApiMetricsPy
    /\ \E k \in 1..Len(stdout.lines) : stdout.lines[k].path = InitPy

(***************************************************************************)
(* C29: run_once validates the config before it touches the run root.      *)
(***************************************************************************)
\* the config file at path is missing, or names an unknown top-level or nested key
ConfigRejected(dsk, path) ==
    \/ path \notin DOMAIN dsk
    \/ /\ dsk[path].kind = "file"
       /\ \E k \in 1..Len(dsk[path].content) :
              LET line == dsk[path].content[k]
              IN \/ line.indent = 0 /\ line.key \notin {"seed", "run"}
                 \/ line.indent = 1 /\ line.key \notin {"experiment_name", "run_root"}

\* C29: run_once validates the config before touching the run root: when
\* loading or validating the config fails (missing file, unknown top-level or
\* nested key), run_once raises, returns no run directory, and the file system
\* is the one the call started on: no directory or file was created under
\* run_root.
C29_ConfigFailureTouchesNothing ==
    lcall.op = "run_once" =>
        /\ ConfigRejected(lcall.diskBefore, lcall.path) =>
                /\ lcall.outcome \in {"FileNotFoundError", "ValidationError"}
                /\ (lcall.outcome = "FileNotFoundError") <=> (lcall.path \notin DOMAIN lcall.diskBefore)
        /\ lcall.outcome \in {"FileNotFoundError", "ValidationError"} =>
                /\ lcall.dir = <<>>
                /\ disk = lcall.diskBefore
                /\ \A q \in DOMAIN disk : IsPrefix(lcall.root, q) => q \in DOMAIN lcall.diskBefore

\* run_once is called on a config with an unknown nested key, with a run root
\* that does not exist: it raises ValidationError and the run root still does
\* not exist
C29_Witness ==
    /\ lcall.op = "run_once"
    /\ lcall.path = <<S_nested_yaml>>
    /\ lcall.outcome = "ValidationError"
    /\ lcall.root = <<S_out, S_runs>>
    /\ \A q \in DOMAIN disk : ~IsPrefix(<<S_out>>, q)

====
